---- MODULE Spec2Model ----
(***************************************************************************)
(* Verification model of the microgrid sizing core: the hourly dispatch    *)
(* simulators (simulate_system_fast, simulate_system), the objective and   *)
(* constraint evaluators, the batch adapter and the early-stop callback.   *)
(*                                                                         *)
(* Real numbers of the program are exact rationals <<n, d>> with d > 0 in  *)
(* lowest terms, so that every equality the model checks is an equality of *)
(* the mathematical values the floating point code approximates.           *)
(***************************************************************************)
EXTENDS Integers, Sequences, FiniteSets, TLC

VARIABLES
    x,          \* decision_vars of the evaluation under way
    diesel_hi,  \* p_diesel_mw of the companion run (same inputs, more diesel)
    cfg,        \* system_config (technology parameters)
    prof,       \* the four hourly arrays the simulators read
    t,          \* hours simulated so far
    fast,       \* simulate_system_fast: loop state and output arrays
    fast_hi,    \* simulate_system_fast run with diesel_hi
    slow,       \* simulate_system: components and hourly_results
    out,        \* what the two simulators returned, once they have
    np_random,  \* the state of numpy's global random generator
    raised,     \* the exception each simulator has raised, if any
    callback,   \* the NSGA3ProgressCallbackFast object
    algorithm,  \* what the callback reads of the algorithm: n_gen and opt
    run,        \* the optimization run that drives the callback
    termination, \* the HypervolumeStagnation object of nsga3_runner_fixed
    validation, \* one call of validate_solution: its inputs and what it returned
    problem,    \* the MicrogridOptimizationProblemFast objects of a batch
    X,          \* the batch of decision vectors handed to _evaluate
    seq_out,    \* out of _evaluate with n_jobs = 1
    v3_out,     \* out of MicrogridOptimizationProblem._evaluate
    pool,       \* the worker pool of _evaluate with n_jobs != 1, and its out
    data_cache, \* the DataCache singleton
    evals,      \* the evaluations made so far, with what they returned
    mode        \* which part of the program the behaviour exercises

simVars == <<x, diesel_hi, cfg, prof, t, fast, fast_hi, slow, out, np_random, raised>>
cbVars == <<callback, algorithm, run, termination>>
valVars == <<validation>>
batchVars == <<problem, X, seq_out, v3_out, pool>>
evalVars == <<data_cache, evals>>

vars == <<simVars, cbVars, valVars, batchVars, evalVars, mode>>

-----------------------------------------------------------------------------
(* Bounds of the model *)

NHours == 3

\* households of the equity index (1220 in the program)
NHouseholds == 5

\* seed of objective_gini_theja
GiniSeed == 42

-----------------------------------------------------------------------------
(* Exact rational arithmetic *)

RECURSIVE GCD(_, _)
GCD(a, b) == IF b = 0 THEN a ELSE GCD(b, a % b)

Abs(a) == IF a < 0 THEN -a ELSE a

Q(n, d) ==
    LET g == GCD(Abs(n), d)
    IN  IF n = 0 THEN <<0, 1>> ELSE <<n \div g, d \div g>>

Zero == Q(0, 1)
One == Q(1, 1)

\* Sums over the least common denominator, products after cross-cancelling,
\* comparisons by continued fractions: no intermediate value is larger than
\* the result needs.
QAdd(a, b) ==
    LET g == GCD(a[2], b[2])
    IN  Q(a[1] * (b[2] \div g) + b[1] * (a[2] \div g), (a[2] \div g) * b[2])
QNeg(a) == <<-a[1], a[2]>>
QSub(a, b) == QAdd(a, QNeg(b))
QMul(a, b) ==
    LET g1 == GCD(Abs(a[1]), b[2])
        g2 == GCD(Abs(b[1]), a[2])
    IN  IF a[1] = 0 \/ b[1] = 0 THEN <<0, 1>>
        ELSE <<(a[1] \div g1) * (b[1] \div g2), (a[2] \div g2) * (b[2] \div g1)>>
QInv(b) == IF b[1] > 0 THEN <<b[2], b[1]>> ELSE <<-b[2], -b[1]>>
QDiv(a, b) == QMul(a, QInv(b))

RECURSIVE FracLt(_, _, _, _)
FracLt(a, b, c, d) ==
    IF a \div b # c \div d THEN a \div b < c \div d
    ELSE IF c % d = 0 THEN FALSE
    ELSE IF a % b = 0 THEN TRUE
    ELSE FracLt(d, c % d, b, a % b)

QLt(a, b) == FracLt(a[1], a[2], b[1], b[2])
QLe(a, b) == ~QLt(b, a)
QMin(a, b) == IF QLe(a, b) THEN a ELSE b
QMax(a, b) == IF QLe(b, a) THEN a ELSE b

QAbs(a) == IF QLt(a, Zero) THEN QSub(Zero, a) ELSE a

\* validate_solution's default tolerance, also the balance tolerance
Tolerance == Q(1, 1000000)

Hours == 1 .. NHours

\* 8760 in the program: the number of hours of the simulated year
HoursPerYear == NHours

RECURSIVE QSumTo(_, _)
QSumTo(arr, n) == IF n = 0 THEN Zero ELSE QAdd(QSumTo(arr, n - 1), arr[n])

-----------------------------------------------------------------------------
(* Inputs *)

DecisionVectors ==
    [n_pv_kw : {Q(0, 1), Q(2000, 1)},
     n_wind_mw : {Q(0, 1), Q(2, 1)},
     e_battery_mwh : {Q(0, 1), Q(2, 1)},
     p_diesel_mw : {Q(0, 1), Q(1, 1), Q(2, 1)}]

DieselValues == {Q(1, 1), Q(3, 1)}

\* The bounds entry of config.py: its keys are not keys of decision_vars.
ConfigBounds ==
    [k \in {"pv_kw", "wind_kw", "battery_kwh", "diesel_kw"} |->
        CASE k = "pv_kw" -> <<Zero, Q(10000, 1)>>
          [] k = "wind_kw" -> <<Zero, Q(5, 1)>>
          [] k = "battery_kwh" -> <<Zero, Q(100, 1)>>
          [] k = "diesel_kw" -> <<Zero, Q(10, 1)>>]

\* Economic and policy parameters, scaled to keep the arithmetic small.
SimConfigs ==
    [battery_efficiency : {Q(9, 10), Q(1, 1)},
     battery_c_rate : {Q(1, 4), Q(1, 1)},
     battery_dod_max : {Q(4, 5), Q(1, 2), Q(2, 5)},
     diesel_efficiency : {Q(3412, 10000)},
     diesel_min_load_fraction : {Q(3, 10)},
     diesel_fuel_cost_per_mmbtu : {Q(20, 1)},
     pv_capital_cost_per_kw : {Q(3, 1)},
     wind_capital_cost_per_kw : {Q(4, 1)},
     battery_capital_cost_per_kwh : {Q(1, 2)},
     diesel_capital_cost_per_kw : {Q(1, 1)},
     pv_om_cost_per_kw_yr : {Q(1, 10)},
     wind_om_cost_per_kw_yr : {Q(1, 5)},
     battery_om_cost_per_kwh_yr : {Q(1, 100)},
     battery_replacement_fraction : {Q(1, 1)},
     battery_replacement_years : {1},
     discount_rate : {Q(1, 2)},
     lifetime_years : {2},
     area_available_pv_m2 : {Q(500000, 1)},
     area_available_wind_m2 : {Q(3000000, 1)},
     renewable_fraction_max : {Q(1, 1)},
     reserve_fraction : {Q(15, 100)},
     lpsp_limit : {Q(5, 100)},
     has_bounds : {FALSE},
     bounds : {ConfigBounds}]

LoadValues == {Q(0, 1), Q(1, 1), Q(3, 1)}

ZeroArray == [h \in Hours |-> Zero]

\* Day/night capacity factors and temperatures; the load is free.
SolarDayFirst == [h \in Hours |-> IF h % 2 = 1 THEN Q(1, 2) ELSE Q(0, 1)]
WindSteady == [h \in Hours |-> Q(1, 2)]
TempCold == [h \in Hours |-> IF h % 2 = 1 THEN Q(-25, 1) ELSE Q(25, 1)]

Profiles ==
    [load_mw : [Hours -> LoadValues],
     solar_cf : {SolarDayFirst},
     wind_cf : {WindSteady},
     temperature_c : {TempCold}]

\* A year with no sun and no wind, under a flat load.
CalmProfiles ==
    [load_mw : {[h \in Hours |-> Q(1, 1)], [h \in Hours |-> Q(3, 1)]},
     solar_cf : {ZeroArray},
     wind_cf : {ZeroArray},
     temperature_c : {TempCold}]

-----------------------------------------------------------------------------
(* simulate_system_fast *)

\* pv_gen_mw[h]: capacity x CF x temperature derating, clamped at 0
PvGenFast(pv_kw, cf, temp_c) ==
    QMax(QMul(QMul(QDiv(pv_kw, Q(1000, 1)), cf),
              QAdd(One, QMul(Q(-4, 1000), QSub(temp_c, Q(25, 1))))),
         Zero)

WindGenFast(wind_mw, cf) == QMul(wind_mw, cf)

BatteryPMaxFast(dv, c) ==
    IF QLt(Zero, dv.e_battery_mwh) THEN QMul(dv.e_battery_mwh, c.battery_c_rate)
                                   ELSE Zero

SocMinFast(dv, c) ==
    IF QLt(Zero, dv.e_battery_mwh) THEN QSub(One, c.battery_dod_max) ELSE Zero

FastInit ==
    [current_soc |-> Q(1, 2),
     diesel_gen_mw |-> ZeroArray,
     diesel_fuel_mmbtu |-> ZeroArray,
     battery_charge_mw |-> ZeroArray,
     battery_discharge_mw |-> ZeroArray,
     deficit_mw |-> ZeroArray,
     soc |-> ZeroArray]

\* FastSurplus with the headroom term and the final clamp left out.
FastSurplusNoHeadroom(s, h, dv, c, excess) ==
    IF QLt(Zero, dv.e_battery_mwh) /\ QLt(s.current_soc, One)
    THEN LET actual_charge == QMin(excess, BatteryPMaxFast(dv, c))
         IN  [s EXCEPT !.battery_charge_mw[h] = actual_charge,
                       !.current_soc =
                           QAdd(s.current_soc,
                                QDiv(QMul(actual_charge, c.battery_efficiency),
                                     dv.e_battery_mwh))]
    ELSE s

\* The surplus branch of the hourly loop.
FastSurplus(s, h, dv, c, excess) ==
    IF QLt(Zero, dv.e_battery_mwh) /\ QLt(s.current_soc, One)
    THEN LET charge_capacity ==
                 QMin(BatteryPMaxFast(dv, c),
                      QDiv(QMul(QSub(One, s.current_soc), dv.e_battery_mwh),
                           c.battery_efficiency))
             actual_charge == QMin(excess, charge_capacity)
             soc1 == QAdd(s.current_soc,
                          QDiv(QMul(actual_charge, c.battery_efficiency),
                               dv.e_battery_mwh))
         IN  [s EXCEPT !.battery_charge_mw[h] = actual_charge,
                       !.current_soc = QMin(soc1, One)]
    ELSE s

\* FastDischarge that delivers half of what the battery could.
FastDischargeHalf(s, h, dv, c, shortfall) ==
    IF QLt(Zero, dv.e_battery_mwh) /\ QLt(SocMinFast(dv, c), s.current_soc)
    THEN LET available_energy ==
                 QMul(QSub(s.current_soc, SocMinFast(dv, c)), dv.e_battery_mwh)
             discharge_capacity == QMin(BatteryPMaxFast(dv, c), available_energy)
             actual_discharge ==
                 QDiv(QMin(shortfall, discharge_capacity), Q(2, 1))
             soc1 == QSub(s.current_soc, QDiv(actual_discharge, dv.e_battery_mwh))
         IN  <<[s EXCEPT !.battery_discharge_mw[h] = actual_discharge,
                         !.current_soc = QMax(soc1, SocMinFast(dv, c))],
               QSub(shortfall, actual_discharge)>>
    ELSE <<s, shortfall>>

\* Battery discharge in a shortfall hour: <<state, remaining shortfall>>.
FastDischarge(s, h, dv, c, shortfall) ==
    IF QLt(Zero, dv.e_battery_mwh) /\ QLt(SocMinFast(dv, c), s.current_soc)
    THEN LET available_energy ==
                 QMul(QSub(s.current_soc, SocMinFast(dv, c)), dv.e_battery_mwh)
             discharge_capacity == QMin(BatteryPMaxFast(dv, c), available_energy)
             actual_discharge == QMin(shortfall, discharge_capacity)
             soc1 == QSub(s.current_soc, QDiv(actual_discharge, dv.e_battery_mwh))
         IN  <<[s EXCEPT !.battery_discharge_mw[h] = actual_discharge,
                         !.current_soc = QMax(soc1, SocMinFast(dv, c))],
               QSub(shortfall, actual_discharge)>>
    ELSE <<s, shortfall>>

\* FastDiesel without `shortfall -= diesel_output`.
FastDieselKeepsShortfall(s, h, dv, c, shortfall) ==
    IF QLt(Zero, shortfall) /\ QLt(Zero, dv.p_diesel_mw)
    THEN LET diesel_output == QMin(shortfall, dv.p_diesel_mw)
             heat_rate == QDiv(Q(3412, 1000), c.diesel_efficiency)
         IN  <<[s EXCEPT !.diesel_gen_mw[h] = diesel_output,
                         !.diesel_fuel_mmbtu[h] = QMul(diesel_output, heat_rate)],
               shortfall>>
    ELSE <<s, shortfall>>

\* FastDiesel that refuses to run below diesel_min_load_fraction x capacity.
FastDieselMinLoad(s, h, dv, c, shortfall) ==
    IF /\ QLt(Zero, shortfall)
       /\ QLt(Zero, dv.p_diesel_mw)
       /\ QLe(QMul(dv.p_diesel_mw, c.diesel_min_load_fraction), shortfall)
    THEN LET diesel_output == QMin(shortfall, dv.p_diesel_mw)
             heat_rate == QDiv(Q(3412, 1000), c.diesel_efficiency)
         IN  <<[s EXCEPT !.diesel_gen_mw[h] = diesel_output,
                         !.diesel_fuel_mmbtu[h] = QMul(diesel_output, heat_rate)],
               QSub(shortfall, diesel_output)>>
    ELSE <<s, shortfall>>

\* FastDiesel whose output stops at half of the installed capacity.
FastDieselHalfCapacity(s, h, dv, c, shortfall) ==
    IF QLt(Zero, shortfall) /\ QLt(Zero, dv.p_diesel_mw)
    THEN LET diesel_output == QMin(shortfall, QDiv(dv.p_diesel_mw, Q(2, 1)))
             heat_rate == QDiv(Q(3412, 1000), c.diesel_efficiency)
         IN  <<[s EXCEPT !.diesel_gen_mw[h] = diesel_output,
                         !.diesel_fuel_mmbtu[h] = QMul(diesel_output, heat_rate)],
               QSub(shortfall, diesel_output)>>
    ELSE <<s, shortfall>>

\* Diesel dispatch in a shortfall hour: <<state, remaining shortfall>>.
FastDiesel(s, h, dv, c, shortfall) ==
    IF QLt(Zero, shortfall) /\ QLt(Zero, dv.p_diesel_mw)
    THEN LET diesel_output == QMin(shortfall, dv.p_diesel_mw)
             heat_rate == QDiv(Q(3412, 1000), c.diesel_efficiency)
         IN  <<[s EXCEPT !.diesel_gen_mw[h] = diesel_output,
                         !.diesel_fuel_mmbtu[h] = QMul(diesel_output, heat_rate)],
               QSub(shortfall, diesel_output)>>
    ELSE <<s, shortfall>>

FastDeficit(s, h, shortfall) ==
    IF QLt(Zero, shortfall) THEN [s EXCEPT !.deficit_mw[h] = shortfall] ELSE s

\* FastHour with cycle charging: in a surplus hour the diesel generator runs
\* at capacity and its output is offered to the battery with the excess.
FastHourCycleCharging(s, h, dv, c, p) ==
    LET load_t == p.load_mw[h]
        re_t == QAdd(PvGenFast(dv.n_pv_kw, p.solar_cf[h], p.temperature_c[h]),
                     WindGenFast(dv.n_wind_mw, p.wind_cf[h]))
        s1 == IF QLe(load_t, re_t)
              THEN LET a == FastSurplus(s, h, dv, c,
                                        QAdd(QSub(re_t, load_t), dv.p_diesel_mw))
                   IN  [a EXCEPT !.diesel_gen_mw[h] = dv.p_diesel_mw]
              ELSE LET a == FastDischarge(s, h, dv, c, QSub(load_t, re_t))
                       b == FastDiesel(a[1], h, dv, c, a[2])
                   IN  FastDeficit(b[1], h, b[2])
    IN  [s1 EXCEPT !.soc[h] = s1.current_soc]

\* One iteration of the loop `for t in range(n_hours)`.
FastHour(s, h, dv, c, p) ==
    LET load_t == p.load_mw[h]
        re_t == QAdd(PvGenFast(dv.n_pv_kw, p.solar_cf[h], p.temperature_c[h]),
                     WindGenFast(dv.n_wind_mw, p.wind_cf[h]))
        s1 == IF QLe(load_t, re_t)
              THEN FastSurplus(s, h, dv, c, QSub(re_t, load_t))
              ELSE LET a == FastDischarge(s, h, dv, c, QSub(load_t, re_t))
                       b == FastDiesel(a[1], h, dv, c, a[2])
                   IN  FastDeficit(b[1], h, b[2])
    IN  [s1 EXCEPT !.soc[h] = s1.current_soc]

-----------------------------------------------------------------------------
(* Components used by simulate_system *)

\* SolarPV.generate
SolarPVGenerate(capacity_kw, cf_pv, temperature_c) ==
    LET p_stc_kw == QMul(capacity_kw, cf_pv)
        derating_factor ==
            QAdd(One, QMul(Q(-4, 1000), QSub(temperature_c, Q(25, 1))))
        p_derated_kw == QMul(p_stc_kw, derating_factor)
    IN  QDiv(QMax(p_derated_kw, Zero), Q(1000, 1))

\* WindTurbine.generate
WindTurbineGenerate(capacity_mw, cf_wind) == QMax(QMul(capacity_mw, cf_wind), Zero)

\* Battery.__init__ as called by initialize_components (soc_initial = 0.50)
BatteryNew(capacity_mwh, c_rate, efficiency, dod_max) ==
    [capacity_mwh |-> capacity_mwh,
     c_rate |-> c_rate,
     p_max_mw |-> QMul(capacity_mwh, c_rate),
     efficiency |-> efficiency,
     dod_max |-> dod_max,
     soc |-> Q(1, 2)]

\* Battery.get_available_energy
BatteryGetAvailableEnergy(b) ==
    QMax(QMul(b.capacity_mwh, QSub(b.soc, QSub(One, b.dod_max))), Zero)

\* Battery.charge: <<battery, power_actual>>
BatteryCharge(b, power_mw, duration_h) ==
    LET power_actual == QMin(power_mw, b.p_max_mw)
        energy_stored_mwh == QMul(QMul(power_actual, duration_h), b.efficiency)
        soc1 == QAdd(b.soc, QDiv(energy_stored_mwh, b.capacity_mwh))
    IN  <<[b EXCEPT !.soc = QMin(soc1, One)], power_actual>>

\* Battery.discharge: <<battery, power_actual>>
BatteryDischarge(b, power_mw, duration_h) ==
    LET power_requested == QMin(power_mw, b.p_max_mw)
        energy_out0 == QMul(power_requested, duration_h)
        energy_from0 == QDiv(energy_out0, b.efficiency)
        available_energy == BatteryGetAvailableEnergy(b)
        limited == QLt(available_energy, energy_from0)
        energy_from_battery_mwh == IF limited THEN available_energy ELSE energy_from0
        energy_out_mwh ==
            IF limited THEN QMul(energy_from_battery_mwh, b.efficiency)
                       ELSE energy_out0
        soc1 == QSub(b.soc, QDiv(energy_from_battery_mwh, b.capacity_mwh))
        power_actual ==
            IF QLt(Zero, duration_h) THEN QDiv(energy_out_mwh, duration_h) ELSE Zero
    IN  <<[b EXCEPT !.soc = QMax(soc1, QSub(One, b.dod_max))], power_actual>>

\* Generator.__init__
GeneratorNew(capacity_mw, efficiency, min_load_fraction) ==
    [capacity_mw |-> capacity_mw,
     efficiency |-> efficiency,
     min_load_mw |-> QMul(capacity_mw, min_load_fraction),
     is_online |-> FALSE,
     hours_since_startup |-> 0]

\* Generator.dispatch with timestep_h = 1: <<generator, result>>
GeneratorDispatch(g, power_demand_mw) ==
    LET power_output_mw == QMin(power_demand_mw, g.capacity_mw)
        heat_rate == QDiv(Q(3412, 1000), g.efficiency)
    IN  <<[g EXCEPT !.is_online = TRUE,
                    !.hours_since_startup = g.hours_since_startup + 1],
          [power_output_mw |-> power_output_mw,
           fuel_consumed_mmbtu |-> QMul(power_output_mw, heat_rate)]>>

-----------------------------------------------------------------------------
(* simulate_system *)

\* initialize_components, and the empty hourly_results list
SlowInit(dv, c) ==
    [battery |-> BatteryNew(dv.e_battery_mwh, c.battery_c_rate,
                            c.battery_efficiency, c.battery_dod_max),
     diesel |-> GeneratorNew(dv.p_diesel_mw, c.diesel_efficiency,
                             c.diesel_min_load_fraction),
     hourly_results |-> <<>>]

HourRecord(load_t, p_pv, p_wind, dis, chg, p_diesel, fuel, deficit, soc) ==
    [load_mw |-> load_t, pv_mw |-> p_pv, wind_mw |-> p_wind,
     battery_discharge_mw |-> dis, battery_charge_mw |-> chg,
     diesel_mw |-> p_diesel, diesel_fuel_mmbtu |-> fuel,
     deficit_mw |-> QMax(deficit, Zero), soc |-> soc]

\* The surplus branch: the battery takes what Battery.charge accepts.
SlowSurplus(s, load_t, p_pv, p_wind, excess) ==
    IF QLt(Zero, s.battery.capacity_mwh)
    THEN LET r == BatteryCharge(s.battery, excess, One)
         IN  [s EXCEPT !.battery = r[1],
                       !.hourly_results =
                           Append(@, HourRecord(load_t, p_pv, p_wind, Zero, r[2],
                                                Zero, Zero, Zero, r[1].soc))]
    ELSE [s EXCEPT !.hourly_results =
                       Append(@, HourRecord(load_t, p_pv, p_wind, Zero, Zero,
                                            Zero, Zero, Zero, s.battery.soc))]

\* The shortfall branch: battery first, then diesel, the rest is deficit.
SlowShortfall(s, load_t, p_pv, p_wind, shortfall) ==
    LET r == IF QLt(Zero, s.battery.capacity_mwh)
             THEN BatteryDischarge(s.battery,
                                   QMin(shortfall, s.battery.p_max_mw), One)
             ELSE <<s.battery, Zero>>
        p_battery_discharge == r[2]
        remaining == QSub(shortfall, p_battery_discharge)
        runs_diesel ==
            /\ QLt(Zero, remaining)
            /\ QLt(Zero, s.diesel.capacity_mw)
            /\ QLt(Zero, QMin(remaining, s.diesel.capacity_mw))
        g == IF runs_diesel
             THEN GeneratorDispatch(s.diesel, QMin(remaining, s.diesel.capacity_mw))
             ELSE <<s.diesel, [power_output_mw |-> Zero,
                               fuel_consumed_mmbtu |-> Zero]>>
        deficit == IF QLt(Zero, remaining)
                   THEN QSub(remaining, g[2].power_output_mw)
                   ELSE Zero
    IN  [s EXCEPT !.battery = r[1],
                  !.diesel = g[1],
                  !.hourly_results =
                      Append(@, HourRecord(load_t, p_pv, p_wind,
                                           p_battery_discharge, Zero,
                                           g[2].power_output_mw,
                                           g[2].fuel_consumed_mmbtu,
                                           deficit, r[1].soc))]

\* One iteration of the loop `for t in range(8760)`.
SlowHour(s, h, dv, p) ==
    LET load_t == p.load_mw[h]
        p_pv == SolarPVGenerate(dv.n_pv_kw, p.solar_cf[h], p.temperature_c[h])
        p_wind == WindTurbineGenerate(dv.n_wind_mw, p.wind_cf[h])
        p_renewable == QAdd(p_pv, p_wind)
    IN  IF QLe(load_t, p_renewable)
        THEN SlowSurplus(s, load_t, p_pv, p_wind, QSub(p_renewable, load_t))
        ELSE SlowShortfall(s, load_t, p_pv, p_wind, QSub(load_t, p_renewable))

-----------------------------------------------------------------------------
(* The exceptions the hourly loops can raise *)

NoError == "none"

NothingRaised == [fast |-> NoError, slow |-> NoError]

\* A variant that enters the charge branch whatever the capacity is
ChargeBranchAnyCapacity(s, dv) == QLt(s.current_soc, One)

\* `if battery_mwh > 0 and current_soc < 1.0`
ChargeBranch(s, dv) == QLt(Zero, dv.e_battery_mwh) /\ QLt(s.current_soc, One)

\* `if battery_mwh > 0 and current_soc > soc_min`
DischargeBranch(s, dv, c) ==
    QLt(Zero, dv.e_battery_mwh) /\ QLt(SocMinFast(dv, c), s.current_soc)

\* What one iteration of the loop of simulate_system_fast raises: a division
\* by battery_efficiency, battery_mwh or diesel_efficiency that is 0, in the
\* branch the iteration takes, and an index past the end of renewable_mw
FastHourError(s, h, dv, c, p) ==
    IF h > Len(p.solar_cf) \/ h > Len(p.wind_cf) THEN "IndexError"
    ELSE
    LET load_t == p.load_mw[h]
        re_t == QAdd(PvGenFast(dv.n_pv_kw, p.solar_cf[h], p.temperature_c[h]),
                     WindGenFast(dv.n_wind_mw, p.wind_cf[h]))
    IN  IF QLe(load_t, re_t)
        THEN IF /\ ChargeBranch(s, dv)
                /\ (c.battery_efficiency = Zero \/ dv.e_battery_mwh = Zero)
             THEN "ZeroDivisionError" ELSE NoError
        ELSE IF DischargeBranch(s, dv, c) /\ dv.e_battery_mwh = Zero
             THEN "ZeroDivisionError"
             ELSE IF /\ QLt(Zero, FastDischarge(s, h, dv, c, QSub(load_t, re_t))[2])
                     /\ QLt(Zero, dv.p_diesel_mw)
                     /\ c.diesel_efficiency = Zero
                  THEN "ZeroDivisionError" ELSE NoError

\* What Battery.charge raises: `energy_stored_mwh / self.capacity_mwh`
BatteryChargeError(b) ==
    IF b.capacity_mwh = Zero THEN "ZeroDivisionError" ELSE NoError

\* What Battery.discharge raises: `energy_out_mwh / self.efficiency` and
\* `energy_from_battery_mwh / self.capacity_mwh`
BatteryDischargeError(b) ==
    IF b.efficiency = Zero \/ b.capacity_mwh = Zero
    THEN "ZeroDivisionError" ELSE NoError

\* What Generator.dispatch raises: the heat rate divides by the efficiency,
\* and fuel_consumption_mmbtu_h refuses a negative output
GeneratorDispatchError(g, power_demand_mw) ==
    IF QLt(QMin(power_demand_mw, g.capacity_mw), Zero) THEN "ValueError"
    ELSE IF g.efficiency = Zero THEN "ZeroDivisionError" ELSE NoError

\* What one iteration of the loop of simulate_system raises: get_load
\* refuses a timestep past the year, and the components raise as above
SlowHourError(s, h, dv, p) ==
    IF h > HoursPerYear THEN "IndexError"
    ELSE
    LET load_t == p.load_mw[h]
        p_renewable ==
            QAdd(SolarPVGenerate(dv.n_pv_kw, p.solar_cf[h], p.temperature_c[h]),
                 WindTurbineGenerate(dv.n_wind_mw, p.wind_cf[h]))
        has_battery == QLt(Zero, s.battery.capacity_mwh)
    IN  IF QLe(load_t, p_renewable)
        THEN IF has_battery THEN BatteryChargeError(s.battery) ELSE NoError
        ELSE IF has_battery /\ BatteryDischargeError(s.battery) # NoError
             THEN BatteryDischargeError(s.battery)
             ELSE LET shortfall == QSub(load_t, p_renewable)
                      dis == IF has_battery
                             THEN BatteryDischarge(s.battery,
                                      QMin(shortfall, s.battery.p_max_mw), One)[2]
                             ELSE Zero
                      remaining == QSub(shortfall, dis)
                  IN  IF /\ QLt(Zero, remaining)
                         /\ QLt(Zero, s.diesel.capacity_mw)
                         /\ QLt(Zero, QMin(remaining, s.diesel.capacity_mw))
                      THEN GeneratorDispatchError(
                               s.diesel, QMin(remaining, s.diesel.capacity_mw))
                      ELSE NoError

-----------------------------------------------------------------------------
(* Objective functions *)

RECURSIVE QPow(_, _)
QPow(a, n) == IF n = 0 THEN One ELSE QMul(a, QPow(a, n - 1))

\* objective_npc
objective_npc(system) ==
    LET pwf == IF system.discount_rate = Zero
               THEN Q(system.lifetime_years, 1)
               ELSE QDiv(QSub(One, QDiv(One, QPow(QAdd(One, system.discount_rate),
                                                  system.lifetime_years))),
                         system.discount_rate)
        pv_fuel == QMul(system.fuel_cost_annual_usd, pwf)
        pv_om == QMul(system.om_cost_annual_usd, pwf)
        pv_replacement ==
            IF system.replacement_cost_usd # Zero /\ system.replacement_year # 0
            THEN QDiv(system.replacement_cost_usd,
                      QPow(QAdd(One, system.discount_rate), system.replacement_year))
            ELSE Zero
    IN  QAdd(QAdd(QAdd(system.capital_cost_usd, pv_fuel), pv_om), pv_replacement)

\* objective_lpsp returning a percentage.
objective_lpsp_percent(total_deficit, total_load) ==
    IF total_load = Zero THEN Zero
    ELSE QMul(Q(100, 1), QDiv(total_deficit, total_load))

\* objective_lpsp
objective_lpsp(total_deficit, total_load) ==
    IF total_load = Zero THEN Zero ELSE QDiv(total_deficit, total_load)

\* objective_co2 (no LNG is burnt: fuel_lng_mmbtu_annual = 0.0)
objective_co2(fuel_diesel, lifetime_years) ==
    LET co2_annual_kg == QAdd(QMul(Zero, Q(5306, 100)), QMul(fuel_diesel, Q(7222, 100)))
    IN  QDiv(QMul(co2_annual_kg, Q(lifetime_years, 1)), Q(1000, 1))

\* numpy's global generator: np.random.seed(seed) followed by k draws. The
\* k-th number in [0, 1) after seeding is a fixed function of seed and k.
RawDraw(seed, k) == Q((seed * 7 + k * 3) % 10, 10)

\* np.random.uniform(lo, hi, n), the generator having produced `drawn` numbers
Uniform(seed, drawn, lo, hi, n) ==
    [i \in 1 .. n |-> QAdd(lo, QMul(QSub(hi, lo), RawDraw(seed, drawn + i)))]

QClip(a, lo, hi) == QMin(QMax(a, lo), hi)

RECURSIVE QSumSeq(_)
QSumSeq(sq) == IF sq = <<>> THEN Zero ELSE QAdd(Head(sq), QSumSeq(Tail(sq)))

\* np.sort
RECURSIVE SortInsert(_, _)
SortInsert(sq, v) ==
    IF sq = <<>> THEN <<v>>
    ELSE IF QLe(v, Head(sq)) THEN <<v>> \o sq
         ELSE <<Head(sq)>> \o SortInsert(Tail(sq), v)

RECURSIVE QSort(_)
QSort(sq) == IF sq = <<>> THEN <<>> ELSE SortInsert(QSort(Tail(sq)), Head(sq))

\* objective_gini_theja
objective_gini_theja(total_re_mwh, total_load_mwh, n_households, seed) ==
    LET re_ratio == IF QLt(Zero, total_load_mwh)
                    THEN QDiv(total_re_mwh, total_load_mwh) ELSE Zero
        n_low == (n_households * 4) \div 10
        n_mid == (n_households * 4) \div 10
        n_high == n_households - n_low - n_mid
        capture == Uniform(seed, 0, Q(3, 10), Q(6, 10), n_low)
                   \o Uniform(seed, n_low, Q(7, 10), Q(11, 10), n_mid)
                   \o Uniform(seed, n_low + n_mid, Q(12, 10), Q(2, 1), n_high)
        scarcity == QClip(QSub(One, re_ratio), Zero, One)
        effective_weight ==
            [i \in 1 .. n_households |->
                QAdd(One, QMul(scarcity, QSub(capture[i], One)))]
        weight_sum == QSumSeq(effective_weight)
        benefit ==
            [i \in 1 .. n_households |->
                QClip(QMul(QMul(Q(n_households, 1), re_ratio),
                           QDiv(effective_weight[i], weight_sum)),
                      Zero, One)]
        benefit_sum == QSumSeq(benefit)
        sorted_benefit == QSort(benefit)
        ranked == [i \in 1 .. n_households |-> QMul(Q(i, 1), sorted_benefit[i])]
        gini == QDiv(QSub(QMul(Q(2, 1), QSumSeq(ranked)),
                          QMul(Q(n_households + 1, 1), benefit_sum)),
                     QMul(Q(n_households, 1), benefit_sum))
    IN  IF benefit_sum = Zero THEN One ELSE QMax(Zero, QMin(gini, One))

-----------------------------------------------------------------------------
(* Constraint functions and validate_solution *)

\* constraint_bounds: only the bounded names that are keys of x count
RECURSIVE BoundsSum(_, _, _)
BoundsSum(names, xs, bounds) ==
    IF names = {} THEN Zero
    ELSE LET n == CHOOSE k \in names : TRUE
             lower == bounds[n][1]
             upper == bounds[n][2]
             below == IF n \in DOMAIN xs /\ QLt(xs[n], lower)
                      THEN QAbs(QSub(xs[n], lower)) ELSE Zero
             above == IF n \in DOMAIN xs /\ QLt(upper, xs[n])
                      THEN QAbs(QSub(xs[n], upper)) ELSE Zero
         IN  QAdd(QAdd(below, above), BoundsSum(names \ {n}, xs, bounds))

constraint_bounds(xs, bounds) == BoundsSum(DOMAIN bounds, xs, bounds)

\* constraint_area_v6 with use_separated_areas = True
constraint_area_v6(xs, area_params) ==
    LET area_pv == QMul(xs["n_pv_kw"], area_params.area_pv_per_kw)
        area_wind == QMul(xs["n_wind_mw"], area_params.area_wind_per_mw)
        area_battery == QMul(xs["e_battery_mwh"], area_params.area_battery_per_mwh)
        violation_pv ==
            QMax(QSub(QAdd(area_pv, area_battery), area_params.area_available_pv_m2),
                 Zero)
        violation_wind ==
            QMax(QSub(area_wind, area_params.area_available_wind_m2), Zero)
    IN  QAdd(violation_pv, violation_wind)

\* constraint_lpsp
constraint_lpsp(lpsp, lpsp_limit) == QMax(QSub(lpsp, lpsp_limit), Zero)

\* constraint_spinning_reserve
constraint_spinning_reserve(system, reserve_fraction) ==
    LET reserve_required == QMul(reserve_fraction, system.p_load_avg_mw)
        reserve_available ==
            QSub(QAdd(system.p_diesel_online_mw, system.p_battery_discharge_mw),
                 system.p_load_avg_mw)
    IN  QMax(QSub(reserve_required, reserve_available), Zero)

\* constraint_grid_limits
constraint_grid_limits(system, grid_limits) ==
    QAdd(QMax(QSub(system.p_grid_buy_mw, grid_limits.p_max_import_mw), Zero),
         QMax(QSub(system.p_grid_sell_mw, grid_limits.p_max_export_mw), Zero))

\* constraint_renewable_cap_v4
constraint_renewable_cap_v4(system, policy, enable_renewable_cap) ==
    IF ~enable_renewable_cap THEN Zero
    ELSE QMax(QSub(QAdd(QDiv(system.p_pv_installed_kw, Q(1000, 1)),
                        system.p_wind_installed_mw),
                   QMul(policy.renewable_fraction_max, system.p_load_avg_mw)),
              Zero)

\* calculate_total_violation: sum(max(v, 0.0) for v in violations.values())
RECURSIVE TotalOver(_, _)
TotalOver(names, violations) ==
    IF names = {} THEN Zero
    ELSE LET n == CHOOSE k \in names : TRUE
         IN  QAdd(QMax(violations[n], Zero), TotalOver(names \ {n}, violations))

calculate_total_violation(violations) == TotalOver(DOMAIN violations, violations)

\* A variant that rejects a total violation equal to the tolerance
IsFeasibleStrict(total_cv, tolerance) == QLt(total_cv, tolerance)

\* is_feasible = (total_cv <= tolerance)
IsFeasible(total_cv, tolerance) == QLe(total_cv, tolerance)

\* validate_solution with the default tolerance 1e-6
validate_solution(xs, bounds, area_params, lpsp, policy, grid_limits, reserve_fraction, lpsp_limit) ==
    LET violations ==
            [k \in {"bounds", "area", "lpsp", "spinning_reserve", "grid_limits",
                    "renewable_cap"} |->
                CASE k = "bounds" -> constraint_bounds(xs, bounds)
                  [] k = "area" -> constraint_area_v6(xs, area_params)
                  [] k = "lpsp" -> constraint_lpsp(lpsp, lpsp_limit)
                  [] k = "spinning_reserve" ->
                        constraint_spinning_reserve(
                            [p_diesel_online_mw |-> xs["p_diesel_online_mw"],
                             p_battery_discharge_mw |-> xs["p_battery_discharge_mw"],
                             p_load_avg_mw |-> xs["p_load_avg_mw"]],
                            reserve_fraction)
                  [] k = "grid_limits" ->
                        constraint_grid_limits(
                            [p_grid_buy_mw |-> xs["p_grid_buy_mw"],
                             p_grid_sell_mw |-> xs["p_grid_sell_mw"]],
                            grid_limits)
                  [] k = "renewable_cap" ->
                        constraint_renewable_cap_v4(
                            [p_pv_installed_kw |-> xs["p_pv_installed_kw"],
                             p_wind_installed_mw |-> xs["p_wind_installed_mw"],
                             p_load_avg_mw |-> xs["p_load_avg_mw"]],
                            policy, FALSE)]
        total_cv == calculate_total_violation(violations)
    IN  [is_feasible |-> IsFeasible(total_cv, Tolerance),
         total_violation |-> total_cv,
         violations |-> violations]

-----------------------------------------------------------------------------
(* The evaluation that follows the hourly loop *)

CapitalCost(dv, c) ==
    QAdd(QAdd(QAdd(QMul(dv.n_pv_kw, c.pv_capital_cost_per_kw),
                   QMul(QMul(dv.n_wind_mw, Q(1000, 1)), c.wind_capital_cost_per_kw)),
              QMul(QMul(dv.e_battery_mwh, Q(1000, 1)), c.battery_capital_cost_per_kwh)),
         QMul(QMul(dv.p_diesel_mw, Q(1000, 1)), c.diesel_capital_cost_per_kw))

OmCostAnnual(dv, c) ==
    QAdd(QAdd(QMul(dv.n_pv_kw, c.pv_om_cost_per_kw_yr),
              QMul(QMul(dv.n_wind_mw, Q(1000, 1)), c.wind_om_cost_per_kw_yr)),
         QMul(QMul(dv.e_battery_mwh, Q(1000, 1)), c.battery_om_cost_per_kwh_yr))

ReplacementCost(dv, c) ==
    QMul(QMul(QMul(dv.e_battery_mwh, Q(1000, 1)), c.battery_capital_cost_per_kwh),
         c.battery_replacement_fraction)

SystemForNpc(dv, c, total_diesel_fuel) ==
    [capital_cost_usd |-> CapitalCost(dv, c),
     fuel_cost_annual_usd |-> QMul(total_diesel_fuel, c.diesel_fuel_cost_per_mmbtu),
     om_cost_annual_usd |-> OmCostAnnual(dv, c),
     replacement_cost_usd |-> ReplacementCost(dv, c),
     replacement_year |-> c.battery_replacement_years,
     discount_rate |-> c.discount_rate,
     lifetime_years |-> c.lifetime_years]

\* x_for_constraints: the decision variables plus the derived entries
XForConstraints(dv, c, p_battery_max, total_load_mwh) ==
    [k \in {"n_pv_kw", "n_wind_mw", "e_battery_mwh", "p_diesel_mw",
            "p_diesel_online_mw", "p_battery_discharge_mw", "p_load_avg_mw",
            "p_pv_installed_kw", "p_wind_installed_mw", "p_grid_buy_mw",
            "p_grid_sell_mw"} |->
        CASE k = "n_pv_kw" -> dv.n_pv_kw
          [] k = "n_wind_mw" -> dv.n_wind_mw
          [] k = "e_battery_mwh" -> dv.e_battery_mwh
          [] k = "p_diesel_mw" -> dv.p_diesel_mw
          [] k = "p_diesel_online_mw" -> dv.p_diesel_mw
          [] k = "p_battery_discharge_mw" -> p_battery_max
          [] k = "p_load_avg_mw" -> QDiv(total_load_mwh, Q(HoursPerYear, 1))
          [] k = "p_pv_installed_kw" -> dv.n_pv_kw
          [] k = "p_wind_installed_mw" -> dv.n_wind_mw
          [] k = "p_grid_buy_mw" -> Zero
          [] k = "p_grid_sell_mw" -> Zero]

AreaParams(c) ==
    [area_pv_per_kw |-> Q(2, 1),
     area_wind_per_mw |-> Q(186050, 1),
     area_battery_per_mwh |-> Q(10, 1),
     area_available_pv_m2 |-> c.area_available_pv_m2,
     area_available_wind_m2 |-> c.area_available_wind_m2]

GridLimits == [p_max_import_mw |-> Zero, p_max_export_mw |-> Zero]

\* bounds = system_config.get('bounds', {...}) in simulate_system_fast
FastDefaultBounds ==
    [k \in {"n_pv_kw", "n_wind_mw", "e_battery_mwh", "p_diesel_mw"} |->
        CASE k = "n_pv_kw" -> <<Zero, Q(10000, 1)>>
          [] k = "n_wind_mw" -> <<Zero, Q(5, 1)>>
          [] k = "e_battery_mwh" -> <<Zero, Q(100, 1)>>
          [] k = "p_diesel_mw" -> <<Zero, Q(10, 1)>>]

FastBounds(c) == IF c.has_bounds THEN c.bounds ELSE FastDefaultBounds

\* the bounds dictionary written out in simulate_system
SlowBounds ==
    [k \in {"n_pv_kw", "n_wind_mw", "e_battery_mwh", "p_diesel_mw"} |->
        CASE k = "n_pv_kw" -> <<Zero, Q(1000, 1)>>
          [] k = "n_wind_mw" -> <<Zero, Q(10, 1)>>
          [] k = "e_battery_mwh" -> <<Zero, Q(20, 1)>>
          [] k = "p_diesel_mw" -> <<Zero, Q(10, 1)>>]

Objectives(npc, lpsp, co2, gini) ==
    [npc |-> npc, lpsp |-> lpsp, co2 |-> co2, gini |-> gini]

Constraints(v) ==
    [is_feasible |-> v.is_feasible,
     total_violation |-> v.total_violation,
     bounds |-> v.violations["bounds"],
     area |-> v.violations["area"],
     lpsp |-> v.violations["lpsp"],
     spinning_reserve |-> v.violations["spinning_reserve"],
     grid_limits |-> v.violations["grid_limits"],
     renewable_cap |-> v.violations["renewable_cap"]]

\* simulate_system_fast after the loop: <<objectives, constraints, summary>>
FastFinish(s, dv, c, p) ==
    LET n_hours == Len(p.load_mw)
        pv_gen_mw == [h \in DOMAIN p.solar_cf |->
                         PvGenFast(dv.n_pv_kw, p.solar_cf[h], p.temperature_c[h])]
        wind_gen_mw == [h \in DOMAIN p.wind_cf |->
                           WindGenFast(dv.n_wind_mw, p.wind_cf[h])]
        total_load_mwh == QSumTo(p.load_mw, n_hours)
        total_pv_mwh == QSumTo(pv_gen_mw, Len(p.solar_cf))
        total_wind_mwh == QSumTo(wind_gen_mw, Len(p.wind_cf))
        total_diesel_mwh == QSumTo(s.diesel_gen_mw, n_hours)
        total_diesel_fuel == QSumTo(s.diesel_fuel_mmbtu, n_hours)
        total_deficit_mwh == QSumTo(s.deficit_mw, n_hours)
        npc_value == objective_npc(SystemForNpc(dv, c, total_diesel_fuel))
        lpsp_value == IF QLt(Zero, total_load_mwh)
                      THEN QDiv(total_deficit_mwh, total_load_mwh) ELSE Zero
        co2_value == objective_co2(total_diesel_fuel, c.lifetime_years)
        gini_value == objective_gini_theja(QAdd(total_pv_mwh, total_wind_mwh),
                                           total_load_mwh, NHouseholds, GiniSeed)
        v == validate_solution(
                 XForConstraints(dv, c, BatteryPMaxFast(dv, c), total_load_mwh),
                 FastBounds(c), AreaParams(c), lpsp_value,
                 [renewable_fraction_max |-> c.renewable_fraction_max],
                 GridLimits, c.reserve_fraction, c.lpsp_limit)
    IN  [objectives |-> Objectives(npc_value, lpsp_value, co2_value, gini_value),
         constraints |-> Constraints(v),
         dispatch_summary |->
             [total_load_mwh |-> total_load_mwh,
              total_pv_generation_mwh |-> total_pv_mwh,
              total_wind_generation_mwh |-> total_wind_mwh,
              total_diesel_generation_mwh |-> total_diesel_mwh,
              total_diesel_fuel_mmbtu |-> total_diesel_fuel,
              total_deficit_mwh |-> total_deficit_mwh]]

RECURSIVE SumField(_, _)
SumField(rows, f) ==
    IF rows = <<>> THEN Zero ELSE QAdd(Head(rows)[f], SumField(Tail(rows), f))

\* simulate_system after the loop (use_v3 = False)
SlowFinish(s, dv, c) ==
    LET rows == s.hourly_results
        total_load_mwh == SumField(rows, "load_mw")
        total_pv_mwh == SumField(rows, "pv_mw")
        total_wind_mwh == SumField(rows, "wind_mw")
        total_diesel_mwh == SumField(rows, "diesel_mw")
        total_diesel_fuel_mmbtu == SumField(rows, "diesel_fuel_mmbtu")
        total_deficit_mwh == SumField(rows, "deficit_mw")
        npc_value == objective_npc(SystemForNpc(dv, c, total_diesel_fuel_mmbtu))
        lpsp_value == objective_lpsp(total_deficit_mwh, total_load_mwh)
        co2_value == objective_co2(total_diesel_fuel_mmbtu, c.lifetime_years)
        gini_value == objective_gini_theja(QAdd(total_pv_mwh, total_wind_mwh),
                                           total_load_mwh, NHouseholds, GiniSeed)
        v == validate_solution(
                 XForConstraints(dv, c, s.battery.p_max_mw, total_load_mwh),
                 SlowBounds, AreaParams(c), lpsp_value,
                 [renewable_fraction_max |-> c.renewable_fraction_max],
                 GridLimits, c.reserve_fraction, c.lpsp_limit)
    IN  [objectives |-> Objectives(npc_value, lpsp_value, co2_value, gini_value),
         constraints |-> Constraints(v),
         dispatch_summary |->
             [total_load_mwh |-> total_load_mwh,
              total_pv_generation_mwh |-> total_pv_mwh,
              total_wind_generation_mwh |-> total_wind_mwh,
              total_diesel_generation_mwh |-> total_diesel_mwh,
              total_diesel_fuel_mmbtu |-> total_diesel_fuel_mmbtu,
              total_deficit_mwh |-> total_deficit_mwh]]

NoOutput == [returned |-> FALSE]

\* The generator as the interpreter starts it: seeded from the system
RngUnseeded == [seed |-> -1, drawn |-> 0]

\* The state of numpy's global generator after objective_gini_theja
RngAfterGini == [seed |-> GiniSeed, drawn |-> NHouseholds]

\* Python's None
None == "None"

\* The parts of the program a behaviour does not exercise stay as they are
\* before anything is constructed.
SimIdle ==
    /\ x = None /\ diesel_hi = None /\ cfg = None /\ prof = None
    /\ t = 0 /\ fast = None /\ fast_hi = None /\ slow = None
    /\ out = NoOutput /\ np_random = RngUnseeded
    /\ raised = NothingRaised

CbIdle ==
    callback = None /\ algorithm = None /\ run = None /\ termination = None

ValIdle == validation = None

BatchIdle ==
    /\ problem = None /\ X = None /\ pool = None
    /\ seq_out = NoOutput /\ v3_out = NoOutput

EvalIdle == data_cache = None /\ evals = <<>>

-----------------------------------------------------------------------------
(* Specification of one simulation run, hour by hour *)

SimInit ==
    /\ mode = "sim"
    /\ x \in DecisionVectors
    /\ diesel_hi \in {d \in DieselValues : QLt(x.p_diesel_mw, d)}
    /\ cfg \in SimConfigs
    /\ prof \in Profiles \cup CalmProfiles
    /\ t = 0
    /\ fast = FastInit
    /\ fast_hi = FastInit
    /\ slow = SlowInit(x, cfg)
    /\ out = NoOutput
    /\ np_random = RngUnseeded
    /\ raised = NothingRaised
    /\ CbIdle /\ ValIdle /\ BatchIdle /\ EvalIdle

SimHour ==
    /\ mode = "sim"
    /\ t < NHours
    /\ t' = t + 1
    /\ \E e \in {[fast |-> IF raised.fast = NoError
                             THEN FastHourError(fast, t + 1, x, cfg, prof)
                             ELSE raised.fast,
                    slow |-> IF raised.slow = NoError
                             THEN SlowHourError(slow, t + 1, x, prof)
                             ELSE raised.slow]} :
          /\ raised' = e
          /\ fast' = IF e.fast = NoError
                     THEN FastHour(fast, t + 1, x, cfg, prof) ELSE fast
          /\ slow' = IF e.slow = NoError
                     THEN SlowHour(slow, t + 1, x, prof) ELSE slow
    /\ fast_hi' = FastHour(fast_hi, t + 1, [x EXCEPT !.p_diesel_mw = diesel_hi],
                           cfg, prof)
    /\ UNCHANGED <<x, diesel_hi, cfg, prof, out, np_random, mode>>
    /\ UNCHANGED <<cbVars, valVars, batchVars, evalVars>>

\* Both simulators leave their loops and return, unless an exception has
\* ended them.
SimFinish ==
    /\ mode = "sim"
    /\ t = NHours
    /\ out = NoOutput
    /\ out' = [returned |-> TRUE,
               fast |-> IF raised.fast = NoError
                        THEN FastFinish(fast, x, cfg, prof) ELSE NoOutput,
               fast_hi |-> FastFinish(fast_hi, [x EXCEPT !.p_diesel_mw = diesel_hi],
                                      cfg, prof),
               slow |-> IF raised.slow = NoError
                        THEN SlowFinish(slow, x, cfg) ELSE NoOutput]
    /\ np_random' = RngAfterGini
    /\ UNCHANGED <<x, diesel_hi, cfg, prof, t, fast, fast_hi, slow, raised, mode>>
    /\ UNCHANGED <<cbVars, valVars, batchVars, evalVars>>

SimNext == SimHour \/ SimFinish

SimSpec == SimInit /\ [][SimNext]_vars

-----------------------------------------------------------------------------
(* NSGA3ProgressCallbackFast, and the run that calls it once per generation *)

\* n_gen of the run: the generations minimize() runs unless it is stopped
MaxGen == 5

\* The largest stagnation_generations a callback is constructed with
MaxStagnation == 3

\* ref_point of the hypervolume indicator, one entry per objective
RefPoint == <<Q(2, 1), One, Q(2, 1), One>>

\* Rows of objective values (npc, lpsp, co2, gini) a front is made of
RowOutside == <<Q(3, 1), Q(1, 2), One, Q(1, 2)>>
RowA == <<One, Q(1, 2), One, Q(1, 2)>>
RowC == <<One, Q(1, 2), One, Q(2, 5)>>
RowB == <<One, Q(1, 2), Zero, Q(1, 2)>>
RowD == <<Zero, Q(1, 2), One, Q(3, 4)>>

\* The non-dominated fronts a generation may end with: none, one that does
\* not dominate the reference point, and fronts of growing hypervolume
Fronts == {<<>>, <<RowOutside>>, <<RowA>>, <<RowC>>, <<RowB>>, <<RowA, RowD>>}

\* algorithm.opt: the objective rows F and the decision rows X, here the
\* numbers of the candidates. An optimum not yet set (None) is the one
\* without rows: notify treats the two alike.
OptOf(F) == [F |-> F, X |-> [i \in DOMAIN F |-> <<i>>]]

CallbackParams ==
    [log_every : {2, 5},
     stagnation_generations : 1 .. MaxStagnation,
     stagnation_tolerance : {Q(1, 1000), Q(1, 4)}]

\* NSGA3ProgressCallbackFast.__init__
CallbackNew(p) ==
    [ref_point |-> RefPoint,
     reference_front |-> None,
     log_every |-> p.log_every,
     stagnation_generations |-> p.stagnation_generations,
     stagnation_tolerance |-> p.stagnation_tolerance,
     hv_history |-> <<>>,
     metrics_history |-> <<>>,
     last_F |-> None,
     last_X |-> None,
     best_hv |-> Zero,
     best_hv_gen |-> 0]

\* The volume between one row and the reference point; a row that does not
\* dominate the reference point in every objective contributes nothing
RECURSIVE BoxVolume(_, _, _)
BoxVolume(ref_point, row, n) ==
    IF n = 0 THEN One
    ELSE QMul(BoxVolume(ref_point, row, n - 1),
              QMax(QSub(ref_point[n], row[n]), Zero))

RowMax(a, b) == [d \in DOMAIN a |-> QMax(a[d], b[d])]

\* HV(ref_point)(F): the volume of the union of the rows' boxes
RECURSIVE HV(_, _)
HV(ref_point, F) ==
    IF F = <<>> THEN Zero
    ELSE LET p == Head(F)
             rest == Tail(F)
             shared == [i \in DOMAIN rest |-> RowMax(rest[i], p)]
         IN  QSub(QAdd(BoxVolume(ref_point, p, Len(ref_point)), HV(ref_point, rest)),
                  HV(ref_point, shared))

calculate_hv(cb, F) == IF Len(F) = 0 THEN Zero ELSE HV(cb.ref_point, F)

\* np.inf
Inf == "inf"

calculate_igd_plus(cb, pareto_front) ==
    IF cb.reference_front = None \/ Len(pareto_front) = 0 THEN Inf ELSE Inf

RECURSIVE DistSqTo(_, _, _)
DistSqTo(a, b, n) ==
    IF n = 0 THEN Zero
    ELSE QAdd(DistSqTo(a, b, n - 1), QMul(QSub(a[n], b[n]), QSub(a[n], b[n])))

\* The squared distance from row i to its nearest other row
MinDistSq(F, i) ==
    LET others == {DistSqTo(F[i], F[j], Len(F[i])) : j \in DOMAIN F \ {i}}
    IN  CHOOSE d \in others : \A e \in others : QLe(d, e)

\* sp is the deviation of the nearest-neighbour distances from their mean:
\* 0 when they are all the same, as they are for every front of two rows
calculate_spacing(F) ==
    IF Len(F) < 2 THEN Zero
    ELSE IF \A i, j \in DOMAIN F : MinDistSq(F, i) = MinDistSq(F, j) THEN Zero
    ELSE "irrational"

RECURSIVE RowSumTo(_, _)
RowSumTo(F, n) == IF n = 0 THEN [d \in DOMAIN F[1] |-> Zero]
                  ELSE [d \in DOMAIN F[1] |-> QAdd(RowSumTo(F, n - 1)[d], F[n][d])]

calculate_diversity(F) ==
    IF Len(F) < 2 THEN Zero
    ELSE LET total == RowSumTo(F, Len(F))
             centroid == [d \in DOMAIN total |-> QDiv(total[d], Q(Len(F), 1))]
             sq == [i \in DOMAIN F |-> DistSqTo(F[i], centroid, Len(centroid))]
         IN  QSumSeq(sq)

\* The stagnation count: generations since the best hypervolume was seen
Count(cb, algo) == algo.n_gen - cb.best_hv_gen

\* A variant that counts a hypervolume equal to the best as an improvement
ImprovedOrEqual(cb, hv) ==
    QLe(QMul(cb.best_hv, QAdd(One, cb.stagnation_tolerance)), hv)

\* hv > self.best_hv * (1 + self.stagnation_tolerance)
Improved(cb, hv) ==
    QLt(QMul(cb.best_hv, QAdd(One, cb.stagnation_tolerance)), hv)

\* A variant that waits one generation longer
StagnationExceeded(cb, gen) ==
    gen - cb.best_hv_gen > cb.stagnation_generations

\* gen - self.best_hv_gen >= self.stagnation_generations
StagnationReached(cb, gen) ==
    gen - cb.best_hv_gen >= cb.stagnation_generations

\* A variant that logs every generation
LoggedAlways(cb, gen) == TRUE

\* gen % self.log_every == 0 or gen == 1
Logged(cb, gen) == gen % cb.log_every = 0 \/ gen = 1

\* notify: the callback after the call, and whether the call raised
\* EarlyStopException. A call without a front returns at once.
notify(cb, algo) ==
    LET gen == algo.n_gen
        opt == algo.opt
    IN  IF Len(opt.F) = 0
        THEN [callback |-> cb, raised |-> FALSE]
        ELSE LET F == opt.F
                 hv == calculate_hv(cb, F)
                 best == IF Improved(cb, hv)
                         THEN [cb EXCEPT !.best_hv = hv, !.best_hv_gen = gen]
                         ELSE cb
                 metrics == [generation |-> gen,
                             n_solutions |-> Len(F),
                             hypervolume |-> hv,
                             igd_plus |-> calculate_igd_plus(cb, F),
                             spacing |-> calculate_spacing(F),
                             diversity |-> calculate_diversity(F)]
                 after == [best EXCEPT
                             !.last_F = F,
                             !.last_X = opt.X,
                             !.hv_history = Append(@, <<gen, hv>>),
                             !.metrics_history =
                                 IF Logged(cb, gen)
                                 THEN Append(@, metrics) ELSE @]
             IN  [callback |-> after, raised |-> StagnationReached(after, gen)]

\* What the script keeps of the run: minimize() under way, ended by the
\* callback's exception, or returned after n_gen generations
RunStart == [state |-> "RUNNING", early_stopped |-> FALSE, n_gen_actual |-> MaxGen]

CallbackInit ==
    /\ mode = "callback"
    /\ callback \in {CallbackNew(p) : p \in CallbackParams}
    /\ algorithm = [n_gen |-> 0, opt |-> OptOf(<<>>)]
    /\ run = RunStart
    /\ termination = None
    /\ SimIdle /\ ValIdle /\ BatchIdle /\ EvalIdle

\* One generation of minimize(): the algorithm advances, sets its optimum
\* and calls the callback; EarlyStopException ends the run.
Generation ==
    /\ mode = "callback"
    /\ run.state = "RUNNING"
    /\ algorithm.n_gen < MaxGen
    /\ \E F \in Fronts :
          LET algo == [n_gen |-> algorithm.n_gen + 1, opt |-> OptOf(F)]
              r == notify(callback, algo)
              hist == r.callback.hv_history
          IN  /\ algorithm' = algo
              /\ callback' = r.callback
              /\ run' = IF r.raised
                        THEN [state |-> "STOPPED",
                              early_stopped |-> TRUE,
                              n_gen_actual |-> IF hist # <<>>
                                               THEN hist[Len(hist)][1] ELSE 0]
                        ELSE run
    /\ UNCHANGED <<simVars, valVars, batchVars, evalVars, termination, mode>>

\* minimize() returns after its last generation.
RunComplete ==
    /\ mode = "callback"
    /\ run.state = "RUNNING"
    /\ algorithm.n_gen = MaxGen
    /\ run' = [run EXCEPT !.state = "FINISHED"]
    /\ UNCHANGED <<simVars, valVars, batchVars, evalVars, callback, algorithm, termination, mode>>

CallbackNext == Generation \/ RunComplete

CallbackSpec == CallbackInit /\ [][CallbackNext]_vars

-----------------------------------------------------------------------------
(* The callback under a host that polls it once per generation and goes on
   calling after the early-stop signal *)

PollInit ==
    /\ mode = "poll"
    /\ callback \in {CallbackNew(p) : p \in CallbackParams}
    /\ algorithm = [n_gen |-> 0, opt |-> OptOf(<<>>)]
    /\ run = RunStart
    /\ termination = None
    /\ SimIdle /\ ValIdle /\ BatchIdle /\ EvalIdle

\* One call of notify by the host: run.state is what the call signalled,
\* run.early_stopped whether any call so far raised EarlyStopException.
Poll ==
    /\ mode = "poll"
    /\ algorithm.n_gen < MaxGen
    /\ \E F \in Fronts :
          LET algo == [n_gen |-> algorithm.n_gen + 1, opt |-> OptOf(F)]
              r == notify(callback, algo)
          IN  /\ algorithm' = algo
              /\ callback' = r.callback
              /\ run' = [state |-> IF r.raised THEN "STOPPED" ELSE "RUNNING",
                         early_stopped |-> run.early_stopped \/ r.raised,
                         n_gen_actual |-> IF r.raised /\ ~run.early_stopped
                                          THEN algo.n_gen ELSE run.n_gen_actual]
    /\ UNCHANGED <<simVars, valVars, batchVars, evalVars, termination, mode>>

PollNext == Poll

PollSpec == PollInit /\ [][PollNext]_vars

-----------------------------------------------------------------------------
(* HypervolumeStagnation, the termination criterion of nsga3_runner_fixed *)

\* -np.inf, and the float that is not a number, written as fractions
NegInf == <<-1, 0>>
NaN == <<0, 0>>

\* 1e-10 in the program, the floor of the denominator; scaled with the
\* hypervolumes of the model, which are 0 or at least 1/2
HvFloor == Q(1, 1000000)

\* Hypervolumes EarlyStoppingCallback may measure
HvObserved == {Q(0, 1), Q(1, 2), Q(1, 1), Q(2, 1)}

TerminationParams == [n_stagnant : {2, 3}, tol : {Q(1, 100), Q(3, 2)}]

\* HypervolumeStagnation.__init__
HypervolumeStagnationNew(p) ==
    [n_stagnant |-> p.n_stagnant,
     tol |-> p.tol,
     hv_history |-> <<>>,
     best_hv |-> NegInf,
     generations_without_improvement |-> 0]

\* (current_hv - self.best_hv) / max(abs(self.best_hv), 1e-10) in floating
\* point: with best_hv = -inf it is inf / inf, which is not a number
RelativeImprovement(current_hv, best_hv) ==
    IF best_hv = NegInf
    THEN NaN
    ELSE QDiv(QSub(current_hv, best_hv), QMax(QAbs(best_hv), HvFloor))

\* relative_improvement > self.tol; every comparison with NaN is false
ExceedsTol(relative_improvement, tol) ==
    relative_improvement # NaN /\ QLt(tol, relative_improvement)

\* HypervolumeStagnation._update: the criterion after the call
TerminationUpdate(term, algo) ==
    IF algo.has_hv_history /\ Len(algo.hv_history) > 0
    THEN LET current_hv == algo.hv_history[Len(algo.hv_history)]
             relative_improvement == RelativeImprovement(current_hv, term.best_hv)
             seen == [term EXCEPT !.hv_history = Append(@, current_hv)]
         IN  IF ExceedsTol(relative_improvement, term.tol)
             THEN [seen EXCEPT !.best_hv = current_hv,
                               !.generations_without_improvement = 0]
             ELSE [seen EXCEPT !.generations_without_improvement = @ + 1]
    ELSE term

\* HypervolumeStagnation._do_continue
TerminationDoContinue(term) ==
    term.generations_without_improvement < term.n_stagnant

\* EarlyStoppingCallback.__call__ with a front of hypervolume hv, or with an
\* empty front: the algorithm after the call
EarlyStoppingCallbackCall(algo, front_empty, hv) ==
    IF front_empty
    THEN algo
    ELSE [algo EXCEPT !.has_hv_history = TRUE,
                      !.hv_history = Append(@, hv)]

StagnationInit ==
    /\ mode = "stagnation"
    /\ termination \in {HypervolumeStagnationNew(p) : p \in TerminationParams}
    /\ algorithm = [n_gen |-> 0, has_hv_history |-> FALSE, hv_history |-> <<>>]
    /\ run = RunStart
    /\ callback = None
    /\ SimIdle /\ ValIdle /\ BatchIdle /\ EvalIdle

\* One generation of minimize() in optimize_microgrid: the callback and the
\* criterion are both called, in the order the framework chooses.
StagnationGeneration ==
    /\ mode = "stagnation"
    /\ run.state = "RUNNING"
    /\ algorithm.n_gen < MaxGen
    /\ \E hv \in HvObserved, front_empty \in BOOLEAN, callback_first \in BOOLEAN :
          LET algo == [algorithm EXCEPT !.n_gen = @ + 1]
              called == EarlyStoppingCallbackCall(algo, front_empty, hv)
              term == TerminationUpdate(termination,
                                        IF callback_first THEN called ELSE algo)
          IN  /\ algorithm' = called
              /\ termination' = term
              /\ run' = IF TerminationDoContinue(term)
                        THEN run
                        ELSE [state |-> "STOPPED", early_stopped |-> TRUE,
                              n_gen_actual |-> algo.n_gen]
    /\ UNCHANGED <<simVars, valVars, batchVars, evalVars, callback, mode>>

StagnationNext == StagnationGeneration

StagnationSpec == StagnationInit /\ [][StagnationNext]_vars

-----------------------------------------------------------------------------
(* The hypervolume functions, called on one front *)

\* The fronts of the callback's generations, and one in which only one of
\* two rows lies beyond the reference point
MetricFronts == Fronts \cup {<<RowA, RowOutside>>}

\* np.all(pareto_front <= reference_point)
AllWithin(pareto_front, reference_point) ==
    \A i \in DOMAIN pareto_front :
        \A d \in DOMAIN reference_point :
            QLe(pareto_front[i][d], reference_point[d])

\* calculate_hypervolume of performance_metrics.py
calculate_hypervolume(pareto_front, reference_point) ==
    IF Len(pareto_front) = 0 THEN [raised |-> NoError, value |-> Zero]
    ELSE IF ~AllWithin(pareto_front, reference_point)
         THEN [raised |-> "ValueError"]
         ELSE [raised |-> NoError, value |-> HV(reference_point, pareto_front)]

\* calculate_hypervolume of nsga3_runner_fixed.py: the indicator, unguarded
runner_calculate_hypervolume(F, ref_point) ==
    [raised |-> NoError, value |-> HV(ref_point, F)]

MetricsInit ==
    /\ mode = "metrics"
    /\ callback \in {CallbackNew(p) : p \in CallbackParams}
    /\ \E F \in MetricFronts : algorithm = [n_gen |-> 0, opt |-> OptOf(F)]
    /\ run = [state |-> "CALLED"]
    /\ termination = None
    /\ SimIdle /\ ValIdle /\ BatchIdle /\ EvalIdle

\* The three hypervolume functions are called on the front.
ComputeHypervolume ==
    /\ mode = "metrics"
    /\ run.state = "CALLED"
    /\ run' = [state |-> "RETURNED",
               callback_hv |-> [raised |-> NoError,
                                value |-> calculate_hv(callback, algorithm.opt.F)],
               metrics_hv |-> calculate_hypervolume(algorithm.opt.F,
                                                    callback.ref_point),
               runner_hv |-> runner_calculate_hypervolume(algorithm.opt.F,
                                                          callback.ref_point)]
    /\ UNCHANGED <<simVars, valVars, batchVars, evalVars, callback, algorithm, termination, mode>>

MetricsNext == ComputeHypervolume

MetricsSpec == MetricsInit /\ [][MetricsNext]_vars

-----------------------------------------------------------------------------
(* validate_solution called on its own, and its aggregation over a map with
   one more entry *)

\* Decision vectors inside and just outside the bounds
ValidateVectors ==
    [n_pv_kw : {Q(0, 1), Q(1001, 1)},
     n_wind_mw : {Q(0, 1), Q(6, 1)},
     e_battery_mwh : {Q(0, 1), Q(200, 1)},
     p_diesel_mw : {Q(0, 1), Q(2, 1)}]

\* Decision vectors beyond the area budgets
ValidateVectorsWide ==
    [n_pv_kw : {Q(250001, 1)},
     n_wind_mw : {Q(0, 1), Q(17, 1)},
     e_battery_mwh : {Q(0, 1)},
     p_diesel_mw : {Q(0, 1), Q(2, 1)}]

\* LPSP values: none, beyond the limit by half the tolerance, by the
\* tolerance, by twice the tolerance, and large
ValidateLpsp ==
    {Zero, Q(100001, 2000000), Q(50001, 1000000), Q(50002, 1000000), Q(1, 2)}

\* The calls made: the values next to the tolerance go with the small vectors
ValidateCases ==
    (ValidateVectors \X ValidateLpsp) \cup (ValidateVectorsWide \X {Zero, Q(1, 2)})

ValidateConfig == CHOOSE c \in SimConfigs : TRUE

\* Values of a further constraint entry
ExtraValues == {Q(-1, 1), Zero, One}

ValidateInit ==
    /\ mode = "validate"
    /\ \E case \in ValidateCases,
          bounds \in {FastDefaultBounds, SlowBounds,
                      FastBounds([ValidateConfig EXCEPT !.has_bounds = TRUE])} :
          validation = [stage |-> "called",
                        x |-> XForConstraints(case[1], ValidateConfig, Zero,
                                              Q(NHours, 1)),
                        bounds |-> bounds,
                        lpsp |-> case[2]]
    /\ SimIdle /\ CbIdle /\ BatchIdle /\ EvalIdle

\* g: the six constraint values in the order of the array
ConstraintRow(constraints) ==
    <<constraints.bounds, constraints.area, constraints.lpsp,
      constraints.spinning_reserve, constraints.grid_limits,
      constraints.renewable_cap>>

RECURSIVE SumOfPositive(_, _)
SumOfPositive(constraints, n) ==
    IF n = 0
    THEN Zero
    ELSE QAdd(SumOfPositive(constraints, n - 1), QMax(constraints[n], Zero))

\* calculate_solution_metrics: is_feasible = np.all(constraints <= 0) and
\* total_violation = np.sum(np.maximum(constraints, 0))
MetricsFeasibility(constraints) ==
    [is_feasible |->
         IF Len(constraints) > 0
         THEN \A i \in 1 .. Len(constraints) : QLe(constraints[i], Zero)
         ELSE TRUE,
     total_violation |->
         IF Len(constraints) > 0
         THEN SumOfPositive(constraints, Len(constraints))
         ELSE Zero]

\* validate_solution returns (is_feasible, total_cv, violations); the six
\* values then reach calculate_solution_metrics as the constraint array.
Validate ==
    /\ mode = "validate"
    /\ validation.stage = "called"
    /\ LET c == ValidateConfig
           r == validate_solution(validation.x, validation.bounds, AreaParams(c),
                    validation.lpsp,
                    [renewable_fraction_max |-> c.renewable_fraction_max],
                    GridLimits, c.reserve_fraction, c.lpsp_limit)
       IN  validation' = [stage |-> "returned", x |-> validation.x,
                          bounds |-> validation.bounds, lpsp |-> validation.lpsp,
                          result |-> r,
                          metrics |-> MetricsFeasibility(
                                          ConstraintRow(Constraints(r)))]
    /\ UNCHANGED <<simVars, cbVars, batchVars, evalVars, mode>>

\* The aggregation of validate_solution over the same violations and one
\* further entry: total_cv = calculate_total_violation(violations) and
\* is_feasible = (total_cv <= tolerance).
ValidateExtended ==
    /\ mode = "validate"
    /\ validation.stage = "returned"
    /\ \E v \in ExtraValues :
          LET old == validation.result.violations
              violations == [k \in DOMAIN old \cup {"extra"} |->
                                IF k = "extra" THEN v ELSE old[k]]
              total_cv == calculate_total_violation(violations)
          IN  validation' = [stage |-> "extended", x |-> validation.x,
                             bounds |-> validation.bounds, lpsp |-> validation.lpsp,
                             result |-> validation.result,
                             metrics |-> validation.metrics,
                             extended |-> [is_feasible |-> IsFeasible(total_cv, Tolerance),
                                           total_violation |-> total_cv,
                                           violations |-> violations]]
    /\ UNCHANGED <<simVars, cbVars, batchVars, evalVars, mode>>

ValidateNext == Validate \/ ValidateExtended

ValidateSpec == ValidateInit /\ [][ValidateNext]_vars

-----------------------------------------------------------------------------
(* The area constraint of simulate_system under the two kinds of
   configuration: separated PV and wind budgets, or one budget *)

\* The area entries of system_config: as in config.py, or as in
\* get_system_config of resilience_metrics
AreaConfigs ==
    {[area_available_pv_m2 |-> a, area_available_wind_m2 |-> Q(3000000, 1)] :
         a \in {Q(100000, 1), Q(500000, 1)}}
    \cup {[area_available_m2 |-> a] : a \in {Q(100000, 1), Q(500000, 1)}}

\* area_params as simulate_system builds it from system_config
SlowAreaParams(system_config) ==
    IF "area_available_pv_m2" \in DOMAIN system_config
           /\ "area_available_wind_m2" \in DOMAIN system_config
    THEN [area_pv_per_kw |-> Q(2, 1),
          area_wind_per_mw |-> Q(186050, 1),
          area_battery_per_mwh |-> Q(10, 1),
          area_available_pv_m2 |-> system_config.area_available_pv_m2,
          area_available_wind_m2 |-> system_config.area_available_wind_m2]
    ELSE [area_pv_per_kw |-> Q(2, 1),
          area_wind_per_mw |-> Q(186050, 1),
          area_battery_per_mwh |-> Q(10, 1),
          area_available_m2 |-> system_config.area_available_m2]

\* violations['area'] = constraint_area(x, area_params) in validate_solution:
\* the call leaves use_separated_areas at True, and subscripting the
\* dictionary with a key it does not have raises KeyError
ValidateArea(xs, area_params) ==
    IF "area_available_pv_m2" \notin DOMAIN area_params
           \/ "area_available_wind_m2" \notin DOMAIN area_params
    THEN [raised |-> "KeyError"]
    ELSE [raised |-> NoError, area |-> constraint_area_v6(xs, area_params)]

AreaInit ==
    /\ mode = "area"
    /\ \E dv \in ValidateVectors \cup ValidateVectorsWide,
          system_config \in AreaConfigs :
          validation = [stage |-> "called", x |-> dv,
                        system_config |-> system_config]
    /\ SimIdle /\ CbIdle /\ BatchIdle /\ EvalIdle

\* simulate_system from the construction of area_params to the area entry
\* of the constraints it returns, or the exception that leaves it.
SimulateArea ==
    /\ mode = "area"
    /\ validation.stage = "called"
    /\ validation' =
           [stage |-> "returned", x |-> validation.x,
            system_config |-> validation.system_config,
            result |-> ValidateArea(validation.x,
                                    SlowAreaParams(validation.system_config))]
    /\ UNCHANGED <<simVars, cbVars, batchVars, evalVars, mode>>

AreaNext == SimulateArea

AreaSpec == AreaInit /\ [][AreaNext]_vars

-----------------------------------------------------------------------------
(* The batch adapters: MicrogridOptimizationProblemFast._evaluate, run with
   the sequential loop and with the worker pool, and
   MicrogridOptimizationProblem._evaluate *)

\* The largest batch handed to _evaluate
MaxPop == 2

\* The cores of the machine, which is also the largest n_jobs
MaxWorkers == 3

\* The hourly loop of simulate_system_fast
RECURSIVE FastLoop(_, _, _, _)
FastLoop(n, dv, c, p) ==
    IF n = 0 THEN FastInit
    ELSE CHOOSE s1 \in {FastHour(s, n, dv, c, p) : s \in {FastLoop(n - 1, dv, c, p)}} :
            TRUE

\* simulate_system_fast with the arrays p of the cache it is handed
simulate_system_fast(dv, c, p) ==
    CHOOSE r \in {FastFinish(s, dv, c, p) :
                     s \in {FastLoop(Len(p.load_mw), dv, c, p)}} : TRUE

\* The hourly loop of simulate_system
RECURSIVE SlowLoop(_, _, _, _)
SlowLoop(n, dv, c, p) ==
    IF n = 0 THEN SlowInit(dv, c)
    ELSE CHOOSE s1 \in {SlowHour(s, n, dv, p) : s \in {SlowLoop(n - 1, dv, c, p)}} :
            TRUE

\* simulate_system with the arrays p of the files the configuration names
simulate_system(dv, c, p) ==
    CHOOSE r \in {SlowFinish(s, dv, c) : s \in {SlowLoop(NHours, dv, c, p)}} : TRUE

\* Rows of X: (n_pv_kw, n_wind_mw, e_battery_mwh, p_diesel_mw)
BatchRows ==
    {<<Q(0, 1), Q(0, 1), Q(0, 1), Q(1, 1)>>,
     <<Q(2000, 1), Q(0, 1), Q(2, 1), Q(0, 1)>>,
     <<Q(0, 1), Q(2, 1), Q(0, 1), Q(2, 1)>>}

Batches == UNION {[1 .. n -> BatchRows] : n \in 1 .. MaxPop}

BatchConfig ==
    CHOOSE c \in SimConfigs :
        /\ c.battery_efficiency = Q(9, 10)
        /\ c.battery_c_rate = One
        /\ c.battery_dod_max = Q(4, 5)

\* The profiles of a batch: the load alternates between 1 and 3 MW
BatchProfiles ==
    {p \in Profiles :
        p.load_mw = [h \in Hours |-> IF h % 2 = 1 THEN Q(1, 1) ELSE Q(3, 1)]}

\* decision_vars of one row of X
DecisionVars(xrow) ==
    [n_pv_kw |-> xrow[1], n_wind_mw |-> xrow[2],
     e_battery_mwh |-> xrow[3], p_diesel_mw |-> xrow[4]]

\* A variant that lists lpsp before npc
ObjectiveRowExchanged(objectives) ==
    <<objectives.lpsp, objectives.npc, objectives.co2, objectives.gini>>

\* f: the objectives in the order npc, lpsp, co2, gini
ObjectiveRow(objectives) ==
    <<objectives.npc, objectives.lpsp, objectives.co2, objectives.gini>>

\* _evaluate_single: (f, g) of one candidate
evaluate_single(prob, xrow) ==
    CHOOSE fg \in {[f |-> ObjectiveRow(r.objectives), g |-> ConstraintRow(r.constraints)] :
                      r \in {simulate_system_fast(DecisionVars(xrow), prob.system_config,
                                                  prob.data_cache)}} : TRUE

JOBLIB_AVAILABLE == TRUE

\* The branch _evaluate takes
UsesPool(prob) == JOBLIB_AVAILABLE /\ prob.n_jobs # 1

\* The workers Parallel(n_jobs=...) runs: every core when n_jobs is -1
Workers(n_jobs) == IF n_jobs = -1 THEN MaxWorkers ELSE n_jobs

\* (f, g) of every row of the batch, each from its own _evaluate_single
EvaluateRows(prob, batch) == [i \in DOMAIN batch |-> evaluate_single(prob, batch[i])]

\* The sequential branch of _evaluate: F[i] = f and G[i] = g, row by row
EvaluateLoop(prob, batch) ==
    CHOOSE o \in {[returned |-> TRUE,
                    F |-> [i \in DOMAIN batch |-> rows[i].f],
                    G |-> [i \in DOMAIN batch |-> rows[i].g]] :
                     rows \in {EvaluateRows(prob, batch)}} : TRUE

\* MicrogridOptimizationProblem._evaluate: simulate_system row by row
EvaluateV3Loop(prob, batch) ==
    CHOOSE o \in {[returned |-> TRUE,
                    F |-> [i \in DOMAIN batch |-> ObjectiveRow(rows[i].objectives)],
                    G |-> [i \in DOMAIN batch |-> ConstraintRow(rows[i].constraints)]] :
                     rows \in {[i \in DOMAIN batch |->
                                  simulate_system(DecisionVars(batch[i]),
                                                  prob.system_config, prob.profile)]}} :
        TRUE

\* A result not yet delivered by its worker
Pending == [ready |-> FALSE]

\* A variant that lists the results in the order the workers finished
ResultsAsCompleted(pl) == [k \in DOMAIN pl.finished |-> pl.results[pl.finished[k]]]

\* What Parallel(...)(...) returns: the results in the order of submission
ResultsInOrder(pl) == pl.results

BatchInit ==
    /\ mode = "batch"
    /\ X \in Batches
    /\ \E p \in BatchProfiles, n_jobs \in {-1} \cup (2 .. MaxWorkers) :
          /\ problem = [orig |-> [system_config |-> BatchConfig, profile |-> p],
                        fast |-> [system_config |-> BatchConfig, data_cache |-> p,
                                  n_jobs |-> 1],
                        fast_par |-> [system_config |-> BatchConfig, data_cache |-> p,
                                      n_jobs |-> n_jobs]]
          /\ pool = [next |-> 1,
                     running |-> {},
                     results |-> [i \in DOMAIN X |-> Pending],
                     finished |-> <<>>,
                     out |-> NoOutput]
    /\ seq_out = NoOutput
    /\ v3_out = NoOutput
    /\ SimIdle /\ CbIdle /\ ValIdle /\ EvalIdle

\* problem_orig._evaluate(X, out_orig)
EvaluateV3 ==
    /\ mode = "batch"
    /\ v3_out = NoOutput
    /\ v3_out' = EvaluateV3Loop(problem.orig, X)
    /\ UNCHANGED <<simVars, cbVars, valVars, evalVars, problem, X, seq_out, pool, mode>>

\* problem_fast._evaluate(X, out_fast) with n_jobs = 1
EvaluateSequential ==
    /\ mode = "batch"
    /\ v3_out # NoOutput
    /\ seq_out = NoOutput
    /\ ~UsesPool(problem.fast)
    /\ seq_out' = EvaluateLoop(problem.fast, X)
    /\ UNCHANGED <<simVars, cbVars, valVars, evalVars, problem, X, v3_out, pool, mode>>

\* problem_fast_par._evaluate: a free worker is handed the next candidate;
\* pool.running holds the candidates that are with a worker.
Dispatch ==
    /\ mode = "batch"
    /\ seq_out # NoOutput
    /\ UsesPool(problem.fast_par)
    /\ pool.next <= Len(X)
    /\ Cardinality(pool.running) < Workers(problem.fast_par.n_jobs)
    /\ pool' = [pool EXCEPT !.running = @ \cup {pool.next}, !.next = @ + 1]
    /\ UNCHANGED <<simVars, cbVars, valVars, evalVars, problem, X, seq_out, v3_out, mode>>

\* A worker finishes its candidate, on its copy of the problem, and delivers
\* the result for the candidate's place.
Complete ==
    /\ mode = "batch"
    /\ \E i \in pool.running :
          \E r \in {evaluate_single(problem.fast_par, X[i])} :
             pool' = [pool EXCEPT
                        !.running = @ \ {i},
                        !.results[i] = [ready |-> TRUE, f |-> r.f, g |-> r.g],
                        !.finished = Append(@, i)]
    /\ UNCHANGED <<simVars, cbVars, valVars, evalVars, problem, X, seq_out, v3_out, mode>>

\* Parallel(...) returns once every candidate is done; F and G are built
\* from its list.
Collect ==
    /\ mode = "batch"
    /\ pool.out = NoOutput
    /\ Len(pool.finished) = Len(X)
    /\ LET results == ResultsInOrder(pool)
       IN  pool' = [pool EXCEPT
                      !.out = [returned |-> TRUE,
                               F |-> [i \in DOMAIN results |-> results[i].f],
                               G |-> [i \in DOMAIN results |-> results[i].g]]]
    /\ UNCHANGED <<simVars, cbVars, valVars, evalVars, problem, X, seq_out, v3_out, mode>>

BatchNext == EvaluateV3 \/ EvaluateSequential \/ Dispatch \/ Complete \/ Collect

BatchSpec == BatchInit /\ [][BatchNext]_vars

-----------------------------------------------------------------------------
(* DataCache, and evaluations made one after the other in one process *)

\* The evaluations a behaviour makes
MaxEvals == 4

\* A column of n values that alternate between a and b
ColumnOf(n, a, b) == [h \in 1 .. n |-> IF h % 2 = 1 THEN a ELSE b]

LoadAlternating == [h \in Hours |-> IF h % 2 = 1 THEN Q(1, 1) ELSE Q(3, 1)]
LoadLow == [h \in Hours |-> Q(1, 1)]
WindHighPoint == [h \in Hours |-> Q(1, 4)]

\* The data files, by name, and the columns read from them
Files ==
    [path \in {"load-profile-8760h.csv", "load-profile-other.csv",
               "solar-capacity-factors.csv", "wind-capacity-factors.csv",
               "wind-capacity-factors-highpoint-clean.csv",
               "meteorology-8760h.csv",
               "load-profile-short.csv", "load-profile-long.csv",
               "solar-capacity-factors-short.csv",
               "wind-capacity-factors-short.csv"} |->
        CASE path = "load-profile-8760h.csv" -> [Load_MW |-> LoadAlternating]
          [] path = "load-profile-other.csv" -> [Load_MW |-> LoadLow]
          [] path = "solar-capacity-factors.csv" ->
                [CF_pv |-> SolarDayFirst, T_ambient_C |-> TempCold]
          [] path = "wind-capacity-factors.csv" -> [CF_wind |-> WindSteady]
          [] path = "wind-capacity-factors-highpoint-clean.csv" ->
                [CF_wind |-> WindHighPoint]
          [] path = "meteorology-8760h.csv" -> [T_ambient_C |-> TempCold]
          [] path = "load-profile-short.csv" ->
                [Load_MW |-> ColumnOf(NHours - 1, Q(1, 1), Q(3, 1))]
          [] path = "load-profile-long.csv" ->
                [Load_MW |-> ColumnOf(NHours + 1, Q(1, 1), Q(3, 1))]
          [] path = "solar-capacity-factors-short.csv" ->
                [CF_pv |-> ColumnOf(NHours - 1, Q(1, 2), Q(0, 1)),
                 T_ambient_C |-> ColumnOf(NHours - 1, Q(-25, 1), Q(25, 1))]
          [] path = "wind-capacity-factors-short.csv" ->
                [CF_wind |-> ColumnOf(NHours - 1, Q(1, 2), Q(1, 2))]]

PathsOf(load, wind) ==
    [load_profile_path |-> load,
     solar_cf_path |-> "solar-capacity-factors.csv",
     wind_cf_path |-> wind,
     meteorology_path |-> "meteorology-8760h.csv"]

\* The configurations evaluated: that of config.py, that of the runners (the
\* same load file, another wind file), and one with another load file
EvalConfigs ==
    {BatchConfig @@ PathsOf("load-profile-8760h.csv",
                            "wind-capacity-factors-highpoint-clean.csv"),
     BatchConfig @@ PathsOf("load-profile-8760h.csv", "wind-capacity-factors.csv"),
     BatchConfig @@ PathsOf("load-profile-other.csv", "wind-capacity-factors.csv")}

\* The candidates evaluated: one with wind turbines and one without
EvalVectors ==
    {DecisionVars(row) : row \in {r \in BatchRows : r[1] = Zero}}

\* The candidates evaluated repeatedly: those with wind turbines, whose
\* results depend on the wind file
WindVectors == {dv \in EvalVectors : QLt(Zero, dv.n_wind_mw)}

\* The arrays of the files a configuration names
ProfileOf(system_config) ==
    [load_mw |-> Files[system_config.load_profile_path].Load_MW,
     solar_cf |-> Files[system_config.solar_cf_path].CF_pv,
     wind_cf |-> Files[system_config.wind_cf_path].CF_wind,
     temperature_c |-> Files[system_config.meteorology_path].T_ambient_C]

\* hash(str(path)): equal for equal strings, and different for the different
\* paths of the model
HashOfStr(path) ==
    CASE path = "load-profile-8760h.csv" -> 7919
      [] path = "load-profile-other.csv" -> 104729
      [] path = "load-profile-short.csv" -> 15485863
      [] path = "load-profile-long.csv" -> 32452843
      [] OTHER -> 1299709

\* An array attribute that is still None
NotLoaded == <<>>

\* DataCache.__init__; config_hash 0 stands for None, which no path hashes to
DataCacheNew ==
    [load_mw |-> NotLoaded, solar_cf |-> NotLoaded, wind_cf |-> NotLoaded,
     temperature_c |-> NotLoaded, config_hash |-> 0]

\* DataCache.initialize: the key is the load profile path alone
initialize(cache, system_config) ==
    LET config_hash == HashOfStr(system_config.load_profile_path)
    IN  IF cache.config_hash = config_hash /\ cache.load_mw # NotLoaded
        THEN cache
        ELSE [load_mw |-> Files[system_config.load_profile_path].Load_MW,
              solar_cf |-> Files[system_config.solar_cf_path].CF_pv,
              temperature_c |-> Files[system_config.solar_cf_path].T_ambient_C,
              wind_cf |-> Files[system_config.wind_cf_path].CF_wind,
              config_hash |-> config_hash]

\* DataCache.get_arrays
get_arrays(cache) ==
    [load_mw |-> cache.load_mw, solar_cf |-> cache.solar_cf,
     wind_cf |-> cache.wind_cf, temperature_c |-> cache.temperature_c]

\* simulate_system_fast with wind_cf *= wind_mw in place of wind_mw * wind_cf.
CacheAfterFastInPlace(cache, dv) ==
    [cache EXCEPT !.wind_cf = [h \in DOMAIN cache.wind_cf |->
                                  QMul(dv.n_wind_mw, cache.wind_cf[h])]]

\* The cache after the body of simulate_system_fast: the arrays are read,
\* and every numpy expression over them allocates its result.
CacheAfterFast(cache, dv) == cache

EvalInit ==
    /\ mode = "eval"
    /\ data_cache = DataCacheNew
    /\ evals = <<>>
    /\ SimIdle /\ CbIdle /\ ValIdle /\ BatchIdle

\* simulate_system_fast(decision_vars, system_config): the singleton cache
\* is initialized with the configuration and its arrays are simulated.
EvaluateFast ==
    /\ mode = "eval"
    /\ Len(evals) < MaxEvals
    /\ \E dv \in WindVectors, c \in EvalConfigs :
          \E cache \in {initialize(data_cache, c)} :
             \E s \in {FastLoop(NHours, dv, c, get_arrays(cache))} :
                \E r \in {FastFinish(s, dv, c, get_arrays(cache))} :
                   /\ data_cache' = CacheAfterFast(cache, dv)
                   /\ evals' = Append(evals,
                                  [simulator |-> "simulate_system_fast",
                                   decision_vars |-> dv,
                                   system_config |-> c,
                                   trace |-> [soc |-> s.soc,
                                              diesel_gen_mw |-> s.diesel_gen_mw,
                                              battery_charge_mw |-> s.battery_charge_mw,
                                              battery_discharge_mw |->
                                                  s.battery_discharge_mw,
                                              deficit_mw |-> s.deficit_mw],
                                   objectives |-> r.objectives])
    /\ UNCHANGED <<simVars, cbVars, valVars, batchVars, mode>>

\* simulate_system(decision_vars, system_config): the files are read anew.
EvaluateSlow ==
    /\ mode = "eval"
    /\ Len(evals) < MaxEvals
    /\ \E dv \in WindVectors, c \in EvalConfigs :
          \E s \in {SlowLoop(NHours, dv, c, ProfileOf(c))} :
             \E r \in {SlowFinish(s, dv, c)} :
                evals' = Append(evals,
                            [simulator |-> "simulate_system",
                             decision_vars |-> dv,
                             system_config |-> c,
                             trace |-> s.hourly_results,
                             objectives |-> r.objectives])
    /\ UNCHANGED <<simVars, cbVars, valVars, batchVars, data_cache, mode>>

EvalNext == EvaluateFast \/ EvaluateSlow

EvalSpec == EvalInit /\ [][EvalNext]_vars

-----------------------------------------------------------------------------
(* simulate_system_fast on data files of other lengths than the year *)

\* The calls a behaviour makes
MaxCalls == 2

\* Configurations whose files have NHours - 1, NHours or NHours + 1 rows
LengthConfigs ==
    {BatchConfig @@ [load_profile_path |-> l, solar_cf_path |-> sl,
                     wind_cf_path |-> w,
                     meteorology_path |-> "meteorology-8760h.csv"] :
        l \in {"load-profile-8760h.csv", "load-profile-short.csv",
               "load-profile-long.csv"},
        sl \in {"solar-capacity-factors.csv", "solar-capacity-factors-short.csv"},
        w \in {"wind-capacity-factors.csv", "wind-capacity-factors-short.csv"}}

LengthsOf(p) ==
    [load_mw |-> Len(p.load_mw), solar_cf |-> Len(p.solar_cf),
     wind_cf |-> Len(p.wind_cf), temperature_c |-> Len(p.temperature_c)]

\* What simulate_system_fast raises on the arrays p before it returns:
\* pv_gen_mw + wind_gen_mw needs arrays of one length (no array of the
\* model has length 1, which numpy would stretch), and the loop over
\* range(len(load_mw)) indexes renewable_mw
FastError(dv, c, p) ==
    IF Len(p.solar_cf) # Len(p.wind_cf) THEN "ValueError"
    ELSE IF Len(p.load_mw) > Len(p.solar_cf)
         THEN FastHourError(FastInit, Len(p.solar_cf) + 1, dv, c, p)
         ELSE NoError

LengthInit ==
    /\ mode = "length"
    /\ data_cache = DataCacheNew
    /\ evals = <<>>
    /\ SimIdle /\ CbIdle /\ ValIdle /\ BatchIdle

\* simulate_system_fast(decision_vars, system_config) on the arrays of the
\* singleton cache: it raises, or it returns its objectives
EvaluateLengths ==
    /\ mode = "length"
    /\ Len(evals) < MaxCalls
    /\ \E dv \in EvalVectors, c \in LengthConfigs :
          \E cache \in {initialize(data_cache, c)} :
             \E e \in {FastError(dv, c, get_arrays(cache))} :
                /\ data_cache' = cache
                /\ evals' = Append(evals,
                               [simulator |-> "simulate_system_fast",
                                decision_vars |-> dv,
                                system_config |-> c,
                                lengths |-> LengthsOf(get_arrays(cache)),
                                raised |-> e,
                                result |->
                                    IF e = NoError
                                    THEN simulate_system_fast(dv, c, get_arrays(cache))
                                    ELSE NoOutput])
    /\ UNCHANGED <<simVars, cbVars, valVars, batchVars, mode>>

LengthNext == EvaluateLengths

LengthSpec == LengthInit /\ [][LengthNext]_vars

-----------------------------------------------------------------------------
(* Quantities of the dispatch traces the claims are about *)

Near(a, b) == QLe(QAbs(QSub(a, b)), Tolerance)

Done == 1 .. t

FastPv(h) == PvGenFast(x.n_pv_kw, prof.solar_cf[h], prof.temperature_c[h])
FastWind(h) == WindGenFast(x.n_wind_mw, prof.wind_cf[h])
FastRe(h) == QAdd(FastPv(h), FastWind(h))

\* pv + wind + battery_discharge + diesel - battery_charge - deficit
FastSupply(s, h) ==
    QSub(QSub(QAdd(QAdd(FastRe(h), s.battery_discharge_mw[h]), s.diesel_gen_mw[h]),
              s.battery_charge_mw[h]),
         s.deficit_mw[h])

SlowSupply(r) ==
    QSub(QSub(QAdd(QAdd(QAdd(r.pv_mw, r.wind_mw), r.battery_discharge_mw),
                   r.diesel_mw),
              r.battery_charge_mw),
         r.deficit_mw)

\* pv + wind + battery_discharge + diesel - battery_charge + deficit
FastServed(s, h) ==
    QAdd(QSub(QAdd(QAdd(FastRe(h), s.battery_discharge_mw[h]), s.diesel_gen_mw[h]),
              s.battery_charge_mw[h]),
         s.deficit_mw[h])

SlowServed(r) ==
    QAdd(QSub(QAdd(QAdd(QAdd(r.pv_mw, r.wind_mw), r.battery_discharge_mw),
                   r.diesel_mw),
              r.battery_charge_mw),
         r.deficit_mw)

\* Surplus left after the battery has taken its charge (0 in a shortfall hour).
FastCurtailed(s, h) ==
    IF QLe(prof.load_mw[h], FastRe(h))
    THEN QSub(QSub(FastRe(h), prof.load_mw[h]), s.battery_charge_mw[h])
    ELSE Zero

SlowCurtailed(r) ==
    IF QLe(r.load_mw, QAdd(r.pv_mw, r.wind_mw))
    THEN QSub(QSub(QAdd(r.pv_mw, r.wind_mw), r.load_mw), r.battery_charge_mw)
    ELSE Zero

SocFloor == QSub(One, cfg.battery_dod_max)

-----------------------------------------------------------------------------
(* C1: energy balance *)

\* C1 as stated: in every simulated hour of both simulators
\* pv + wind + battery_discharge + diesel - battery_charge - deficit equals
\* the load within 1e-6, curtailment hours included.
C1_BalanceEveryHour ==
    mode = "sim" =>
        \A h \in Done :
            /\ Near(FastSupply(fast, h), prof.load_mw[h])
            /\ Near(SlowSupply(slow.hourly_results[h]), slow.hourly_results[h].load_mw)

\* C1 amended: deficit is unserved load and enters with a plus sign, and a
\* surplus the battery does not absorb is curtailed. In every simulated hour
\* pv + wind + battery_discharge + diesel - battery_charge + deficit equals
\* the load plus the curtailed surplus, which is never negative and is 0 in
\* every shortfall hour.
C1_BalanceUpToCurtailment ==
    mode = "sim" =>
        \A h \in Done :
            LET r == slow.hourly_results[h]
            IN  /\ QLe(Zero, FastCurtailed(fast, h))
                /\ FastServed(fast, h) = QAdd(prof.load_mw[h], FastCurtailed(fast, h))
                /\ QLe(Zero, SlowCurtailed(r))
                /\ SlowServed(r) = QAdd(r.load_mw, SlowCurtailed(r))

\* A finished run with a curtailed surplus hour, an hour of battery charging
\* and an hour with diesel running and load still unserved.
C1_Witness ==
    /\ mode = "sim"
    /\ t = NHours
    /\ \E h \in Hours :
        /\ QLt(Zero, FastCurtailed(fast, h))
        /\ QLt(Zero, fast.battery_charge_mw[h])
        /\ QLt(Zero, SlowCurtailed(slow.hourly_results[h]))
    /\ \E h \in Hours :
        /\ QLt(Zero, fast.deficit_mw[h])
        /\ QLt(Zero, fast.diesel_gen_mw[h])
        /\ QLt(Zero, slow.hourly_results[h].deficit_mw)

-----------------------------------------------------------------------------
(* C2: state of charge bounds *)

\* C2 as stated: for any dod_max the recorded SOC of every simulated hour lies
\* in [1 - dod_max, 1].
C2_SocBoundsAnyDod ==
    mode = "sim" =>
        \A h \in Done :
            /\ QLe(SocFloor, fast.soc[h]) /\ QLe(fast.soc[h], One)
            /\ QLe(SocFloor, slow.hourly_results[h].soc)
            /\ QLe(slow.hourly_results[h].soc, One)

\* C2 amended: the bounds hold whenever dod_max >= 0.5, i.e. whenever the
\* floor 1 - dod_max is not above the initial SOC of 0.5.
C2_SocBounds ==
    (mode = "sim" /\ QLe(Q(1, 2), cfg.battery_dod_max)) =>
        \A h \in Done :
            /\ QLe(SocFloor, fast.soc[h]) /\ QLe(fast.soc[h], One)
            /\ QLe(SocFloor, slow.hourly_results[h].soc)
            /\ QLe(slow.hourly_results[h].soc, One)

\* A run with dod_max >= 0.5 whose battery was drawn down to the floor in one
\* hour and charged to full in another, in both simulators.
C2_Witness ==
    /\ mode = "sim"
    /\ t = NHours
    /\ QLe(Q(1, 2), cfg.battery_dod_max)
    /\ QLt(Zero, x.e_battery_mwh)
    /\ \E h1, h2 \in Hours :
        /\ fast.soc[h1] = SocFloor /\ QLt(Zero, fast.battery_discharge_mw[h1])
        /\ fast.soc[h2] = One /\ QLt(Zero, fast.battery_charge_mw[h2])
    /\ \E h1, h2 \in Hours :
        /\ slow.hourly_results[h1].soc = SocFloor
        /\ QLt(Zero, slow.hourly_results[h1].battery_discharge_mw)
        /\ slow.hourly_results[h2].soc = One

-----------------------------------------------------------------------------
(* C3: repeated evaluations *)

\* C3 as stated: two evaluations by the same simulator of the same decision
\* vector under the same configuration, hence on the same hourly profile,
\* return the same dispatch trace and the same objective values, whatever
\* was evaluated before or in between.
C3_SameInputsSameResults ==
    \A i, j \in DOMAIN evals :
        (/\ evals[i].simulator = evals[j].simulator
         /\ evals[i].decision_vars = evals[j].decision_vars
         /\ evals[i].system_config = evals[j].system_config)
        => /\ evals[i].trace = evals[j].trace
           /\ evals[i].objectives = evals[j].objectives

-----------------------------------------------------------------------------
(* C4: the worker pool against the sequential loop *)

\* C4: once both have returned, _evaluate with the worker pool (n_jobs != 1)
\* has put into out the same F and G as _evaluate with the sequential loop
\* (n_jobs = 1) on the same batch, whatever the number of workers and the
\* order in which they finished.
C4_PoolEqualsSequential ==
    (seq_out.returned /\ pool.out.returned) =>
        /\ pool.out.F = seq_out.F
        /\ pool.out.G = seq_out.G

\* Both have returned for a batch whose first two candidates score
\* differently, and the workers did not finish in the order of submission.
C4_Witness ==
    /\ mode = "batch"
    /\ seq_out.returned /\ pool.out.returned
    /\ Len(X) >= 2
    /\ seq_out.F[1] # seq_out.F[2]
    /\ pool.finished[1] # 1

-----------------------------------------------------------------------------
(* C5: shape and row order of F and G *)

\* The decision variables of candidate i of the batch
Candidate(i) ==
    [n_pv_kw |-> X[i][1], n_wind_mw |-> X[i][2],
     e_battery_mwh |-> X[i][3], p_diesel_mw |-> X[i][4]]

\* o holds N rows of 4 objectives and N rows of 6 constraints
ShapeOf(o) ==
    /\ DOMAIN o.F = 1 .. Len(X) /\ DOMAIN o.G = 1 .. Len(X)
    /\ \A i \in 1 .. Len(X) : Len(o.F[i]) = 4 /\ Len(o.G[i]) = 6

\* Row i of o is (npc, lpsp, co2, gini) and (bounds, area, lpsp,
\* spinning_reserve, grid_limits, renewable_cap) of the result r
RowOf(o, i, r) ==
    /\ o.F[i] = <<r.objectives.npc, r.objectives.lpsp, r.objectives.co2,
                  r.objectives.gini>>
    /\ o.G[i] = <<r.constraints.bounds, r.constraints.area, r.constraints.lpsp,
                  r.constraints.spinning_reserve, r.constraints.grid_limits,
                  r.constraints.renewable_cap>>

\* C5: for a batch of N decision vectors every _evaluate returns F of shape
\* N x 4 and G of shape N x 6 whose row i holds the objectives (npc, lpsp, co2,
\* gini) and the constraints (bounds, area, lpsp, spinning_reserve,
\* grid_limits, renewable_cap) of candidate X[i]: the fast adapter with the
\* sequential loop and with the pool, and the adapter of simulate_system.
C5_RowsOfCandidates ==
    /\ seq_out.returned =>
        /\ ShapeOf(seq_out)
        /\ \A i \in 1 .. Len(X) :
              \A r \in {simulate_system_fast(Candidate(i), problem.fast.system_config,
                                             problem.fast.data_cache)} :
                 RowOf(seq_out, i, r)
    /\ pool.out.returned =>
        /\ ShapeOf(pool.out)
        /\ \A i \in 1 .. Len(X) :
              \A r \in {simulate_system_fast(Candidate(i),
                                             problem.fast_par.system_config,
                                             problem.fast_par.data_cache)} :
                 RowOf(pool.out, i, r)
    /\ v3_out.returned =>
        /\ ShapeOf(v3_out)
        /\ \A i \in 1 .. Len(X) :
              \A r \in {simulate_system(Candidate(i), problem.orig.system_config,
                                        problem.orig.profile)} :
                 RowOf(v3_out, i, r)

\* The three adapters have returned for a batch of at least two candidates,
\* the first two of them different.
C5_Witness ==
    /\ mode = "batch"
    /\ seq_out.returned /\ pool.out.returned /\ v3_out.returned
    /\ Len(X) >= 2
    /\ X[1] # X[2]
    /\ seq_out.F[1] # seq_out.F[2]

-----------------------------------------------------------------------------
(* C6: the update rule of notify and its early-stop signal *)

\* A step in which the run enters its next generation and calls notify
GenerationStep == mode = "callback" /\ algorithm'.n_gen = algorithm.n_gen + 1

\* The hypervolume of the generation the step enters (0 without a front)
StepHv == calculate_hv(callback, algorithm'.opt.F)

\* The run was ended by the early-stop signal of the step
Signalled == run.state = "RUNNING" /\ run'.state = "STOPPED"

\* best_hv and the stagnation count follow the rule of the claim
UpdateRule ==
    IF QLt(QMul(callback.best_hv, QAdd(One, callback.stagnation_tolerance)), StepHv)
    THEN /\ callback'.best_hv = StepHv
         /\ Count(callback', algorithm') = 0
    ELSE /\ callback'.best_hv = callback.best_hv
         /\ Count(callback', algorithm') = Count(callback, algorithm) + 1

\* C6 as stated: on every call of notify the update rule holds, and the call
\* emits the early-stop signal exactly when the stagnation count has reached
\* stagnation_generations.
C6_SignalWhenCountReached ==
    [][GenerationStep =>
        /\ UpdateRule
        /\ Signalled <=>
             Count(callback', algorithm') >= callback.stagnation_generations]_vars

\* C6: on every call of notify the update rule holds (a generation without a
\* front has hypervolume 0), and the call emits the early-stop signal exactly
\* when its front is not empty and the stagnation count has reached
\* stagnation_generations; a call without a front never signals.
C6_SignalWhenCountReachedWithFront ==
    [][GenerationStep =>
        /\ UpdateRule
        /\ Signalled <=>
             /\ Len(algorithm'.opt.F) > 0
             /\ Count(callback', algorithm') >= callback.stagnation_generations]_vars

\* A run stopped by the signal after a generation without a front had let
\* the count pass stagnation_generations, its best hypervolume being positive.
C6_Witness ==
    /\ mode = "callback"
    /\ run.state = "STOPPED"
    /\ Len(callback.hv_history) < algorithm.n_gen
    /\ QLt(Zero, callback.best_hv)
    /\ Count(callback, algorithm) > callback.stagnation_generations

-----------------------------------------------------------------------------
(* C7: a flat hypervolume sequence *)

\* Every generation so far had a front, all of the same hypervolume
Flat ==
    /\ mode = "callback"
    /\ algorithm.n_gen >= 1
    /\ Len(callback.hv_history) = algorithm.n_gen
    /\ \A i \in DOMAIN callback.hv_history :
          callback.hv_history[i][2] = callback.hv_history[1][2]

FlatValue == callback.hv_history[1][2]

\* The run stops at generation g: not before, and not later
StopsExactlyAt(g) ==
    /\ run.state = "STOPPED" => algorithm.n_gen = g /\ run.n_gen_actual = g
    /\ algorithm.n_gen >= g => run.state = "STOPPED"

\* C7 as stated: a flat sequence stops the run at exactly generation
\* stagnation_generations, whatever the constant.
C7_FlatStopsAtStagnation ==
    Flat => StopsExactlyAt(callback.stagnation_generations)

\* C7: a flat sequence of a positive constant stops the run at exactly
\* generation stagnation_generations + 1 (generation 1 sets the best), and a
\* flat sequence of zeros at exactly generation stagnation_generations.
C7_FlatStopsAfterFirstBest ==
    Flat => StopsExactlyAt(IF FlatValue = Zero
                           THEN callback.stagnation_generations
                           ELSE callback.stagnation_generations + 1)

\* A flat sequence of a positive constant that has stopped the run, with
\* stagnation_generations of at least 2.
C7_Witness ==
    /\ Flat
    /\ QLt(Zero, FlatValue)
    /\ callback.stagnation_generations >= 2
    /\ run.state = "STOPPED"

-----------------------------------------------------------------------------
(* C8: aggregation of the constraint values *)

ConstraintNames ==
    {"bounds", "area", "lpsp", "spinning_reserve", "grid_limits", "renewable_cap"}

\* The positive part of a constraint value
Positive(v) == IF QLt(Zero, v) THEN v ELSE Zero

\* The sum of the positive parts of the six constraint values
SixPositive(v) ==
    QAdd(QAdd(QAdd(Positive(v["bounds"]), Positive(v["area"])),
              QAdd(Positive(v["lpsp"]), Positive(v["spinning_reserve"]))),
         QAdd(Positive(v["grid_limits"]), Positive(v["renewable_cap"])))

\* The six values are those of the six constraint functions
SixValuesOf(v) ==
    LET c == ValidateConfig
        xs == validation.x
    IN  /\ DOMAIN v = ConstraintNames
        /\ v["bounds"] = constraint_bounds(xs, validation.bounds)
        /\ v["area"] = constraint_area_v6(xs, AreaParams(c))
        /\ v["lpsp"] = constraint_lpsp(validation.lpsp, c.lpsp_limit)

\* C8: validate_solution returns total_violation equal to the sum of
\* max(v, 0) over all constraint entries, and is_feasible is true exactly when
\* total_violation <= 1e-6; both hold too for a violations map with a further
\* entry, whatever its sign.
C8_TotalAndFeasible ==
    /\ validation.stage \in {"returned", "extended"} =>
        LET r == validation.result
        IN  /\ SixValuesOf(r.violations)
            /\ r.total_violation = SixPositive(r.violations)
            /\ r.is_feasible <=> QLe(r.total_violation, Q(1, 1000000))
    /\ validation.stage = "extended" =>
        LET e == validation.extended
        IN  /\ DOMAIN e.violations = ConstraintNames \cup {"extra"}
            /\ e.total_violation =
                 QAdd(SixPositive(e.violations), Positive(e.violations["extra"]))
            /\ e.is_feasible <=> QLe(e.total_violation, Q(1, 1000000))

\* A solution whose total violation is exactly the tolerance, hence feasible,
\* and stays so after a negative entry is added.
C8_Witness ==
    /\ validation.stage = "extended"
    /\ validation.result.total_violation = Q(1, 1000000)
    /\ validation.result.is_feasible
    /\ QLt(validation.extended.violations["extra"], Zero)
    /\ validation.extended.is_feasible

-----------------------------------------------------------------------------
(* C9: deficit and LPSP ranges *)

InUnit(a) == QLe(Zero, a) /\ QLe(a, One)

-----------------------------------------------------------------------------
(* C10: more diesel never means more deficit *)

\* C10: the run with the larger diesel_mw has, in every simulated hour, a
\* deficit no larger than the run with the smaller diesel_mw.
C10_DieselMonotone ==
    mode = "sim" =>
        \A h \in Done : QLe(fast_hi.deficit_mw[h], fast.deficit_mw[h])

\* A finished pair of runs in which the extra diesel removed part of a deficit
\* in one hour while the battery was discharging in some hour.
C10_Witness ==
    /\ mode = "sim"
    /\ t = NHours
    /\ \E h \in Hours :
        /\ QLt(fast_hi.deficit_mw[h], fast.deficit_mw[h])
        /\ QLt(Zero, fast_hi.deficit_mw[h])
    /\ \E h \in Hours : QLt(Zero, fast.battery_discharge_mw[h])

-----------------------------------------------------------------------------
(* C11: no exception for a decision vector inside the bounds *)

InsideBounds(dv, bounds) ==
    \A k \in DOMAIN bounds : QLe(bounds[k][1], dv[k]) /\ QLe(dv[k], bounds[k][2])

\* C11: for a decision vector inside the box bounds, zero capacities
\* included, neither simulator raises an exception in any hour and both
\* return; unserved load shows as deficit, as LPSP and as the lpsp
\* constraint value.
C11_NoErrorInsideBounds ==
    (mode = "sim" /\ InsideBounds(x, FastBounds(cfg))) =>
        /\ raised = NothingRaised
        /\ out.returned =>
            /\ out.fast # NoOutput /\ out.slow # NoOutput
            /\ \A res \in {out.fast, out.slow} :
                /\ QLt(Zero, res.dispatch_summary.total_deficit_mwh)
                       => QLt(Zero, res.objectives.lpsp)
                /\ res.constraints.lpsp =
                       QMax(QSub(res.objectives.lpsp, cfg.lpsp_limit), Zero)

\* Both simulators have returned for the system without any capacity, in a
\* year with load: all of it is deficit and the lpsp constraint is violated.
C11_Witness ==
    /\ mode = "sim"
    /\ out.returned
    /\ raised = NothingRaised
    /\ x.n_pv_kw = Zero /\ x.n_wind_mw = Zero
    /\ x.e_battery_mwh = Zero /\ x.p_diesel_mw = Zero
    /\ \A res \in {out.fast, out.slow} :
        /\ res.objectives.lpsp = One
        /\ QLt(Zero, res.constraints.lpsp)

-----------------------------------------------------------------------------
(* C12: data files of another length than the year *)

\* C12 as stated: a call of simulate_system_fast on arrays that are not all
\* HoursPerYear long raises an exception and returns no objectives.
C12_MismatchIsHardError ==
    \A i \in DOMAIN evals :
        (\E k \in DOMAIN evals[i].lengths : evals[i].lengths[k] # HoursPerYear)
            => evals[i].raised # NoError /\ evals[i].result = NoOutput

-----------------------------------------------------------------------------
(* C13: hypervolume of an empty front and of a front beyond the reference *)

\* The front has no row, or a row that the reference point does not dominate
EmptyOrBeyond(F, ref_point) ==
    \/ Len(F) = 0
    \/ \E i \in DOMAIN F : \E d \in DOMAIN ref_point : QLt(ref_point[d], F[i][d])

\* C13 as stated: on an empty front, and on a front with a row that the
\* reference point does not dominate, the callback's _calculate_hv and the
\* two calculate_hypervolume functions return 0 and raise nothing.
C13_ZeroAndNoRaise ==
    (mode = "metrics" /\ run.state = "RETURNED"
        /\ EmptyOrBeyond(algorithm.opt.F, callback.ref_point)) =>
        \A r \in {run.callback_hv, run.metrics_hv, run.runner_hv} :
            r.raised = NoError /\ r.value = Zero

-----------------------------------------------------------------------------
(* C14: objective values that signal a calculation defect *)

\* C14 as stated: an evaluation whose NPC is <= 0, or whose LPSP or Gini is
\* outside [0, 1], ends in an exception; so every objective vector that a
\* simulator returns has NPC > 0 and LPSP and Gini in [0, 1]. (The Gini that
\* objective_gini_theja returns is the computed one wherever that lies in
\* [0, 1].)
C14_ReturnedObjectivesValid ==
    (mode = "sim" /\ out.returned) =>
        \A res \in {out.fast, out.slow} :
            res # NoOutput =>
                /\ QLt(Zero, res.objectives.npc)
                /\ InUnit(res.objectives.lpsp)
                /\ InUnit(res.objectives.gini)

-----------------------------------------------------------------------------
(* C15: simulate_system_fast against simulate_system *)

\* |orig - fast| <= 0.001 x |orig|: the relative difference the test allows
WithinTestTolerance(orig_val, fast_val) ==
    QLe(QAbs(QSub(orig_val, fast_val)), QMul(Q(1, 1000), QAbs(orig_val)))

\* C15 as stated: in every simulated hour the two simulators record the same
\* battery charge, battery discharge, diesel output, deficit and SOC, and
\* the objectives they return differ by at most 0.1% of simulate_system's.
C15_FastEqualsSlow ==
    mode = "sim" =>
        /\ \A h \in Done :
            /\ fast.battery_charge_mw[h] = slow.hourly_results[h].battery_charge_mw
            /\ fast.battery_discharge_mw[h] =
                   slow.hourly_results[h].battery_discharge_mw
            /\ fast.diesel_gen_mw[h] = slow.hourly_results[h].diesel_mw
            /\ fast.deficit_mw[h] = slow.hourly_results[h].deficit_mw
            /\ fast.soc[h] = slow.hourly_results[h].soc
        /\ out.returned =>
            \A k \in {"npc", "lpsp", "co2", "gini"} :
                WithinTestTolerance(out.slow.objectives[k], out.fast.objectives[k])

-----------------------------------------------------------------------------
(* C16: a diesel generator as large as the load *)

DieselCovers(p_diesel_mw) == \A h \in Hours : QLe(prof.load_mw[h], p_diesel_mw)

AllCapacityFactorsZero ==
    \A h \in Hours : prof.solar_cf[h] = Zero /\ prof.wind_cf[h] = Zero

\* C16: when diesel_mw >= load[t] in every hour, simulate_system_fast records
\* a deficit of 0 in every hour and returns LPSP = 0, whatever the PV, wind
\* and battery sizes; when moreover all capacity factors are 0 and
\* battery_mwh = 0, diesel_gen_mw[t] = load[t] in every hour.
C16_DieselCoversLoad ==
    mode = "sim" =>
        \A r \in {[run |-> fast, p_diesel_mw |-> x.p_diesel_mw, name |-> "fast"],
                  [run |-> fast_hi, p_diesel_mw |-> diesel_hi, name |-> "fast_hi"]} :
            DieselCovers(r.p_diesel_mw) =>
                /\ \A h \in Done : r.run.deficit_mw[h] = Zero
                /\ (out.returned /\ out[r.name] # NoOutput) =>
                       out[r.name].objectives.lpsp = Zero
                /\ (AllCapacityFactorsZero /\ x.e_battery_mwh = Zero) =>
                       \A h \in Done : r.run.diesel_gen_mw[h] = prof.load_mw[h]

\* A returned run through a year without sun and wind, with PV and wind
\* installed and no battery, whose diesel generator is as large as the
\* load: it carried the whole load in every hour.
C16_Witness ==
    /\ mode = "sim"
    /\ out.returned
    /\ AllCapacityFactorsZero
    /\ QLt(Zero, x.n_pv_kw) /\ QLt(Zero, x.n_wind_mw)
    /\ x.e_battery_mwh = Zero
    /\ DieselCovers(x.p_diesel_mw)
    /\ \A h \in Hours : QLt(Zero, prof.load_mw[h])
    /\ \A h \in Hours : fast.diesel_gen_mw[h] = prof.load_mw[h]
    /\ out.fast.objectives.lpsp = Zero

-----------------------------------------------------------------------------
(* C17: the bounds constraint *)

DecisionNames == {"n_pv_kw", "n_wind_mw", "e_battery_mwh", "p_diesel_mw"}

\* The entry of a bounds map for a decision variable: the map of the
\* configuration names PV, wind, battery and diesel by other keys.
BoundFor(bounds, k) ==
    IF k \in DOMAIN bounds THEN bounds[k]
    ELSE CASE k = "n_pv_kw" -> bounds["pv_kw"]
           [] k = "n_wind_mw" -> bounds["wind_kw"]
           [] k = "e_battery_mwh" -> bounds["battery_kwh"]
           [] k = "p_diesel_mw" -> bounds["diesel_kw"]

\* How far a value lies below the lower or above the upper bound
OutsideBy(value, bound) ==
    QAdd(QMax(QSub(bound[1], value), Zero), QMax(QSub(value, bound[2]), Zero))

OutsideSum(xs, bounds) ==
    QAdd(QAdd(OutsideBy(xs["n_pv_kw"], BoundFor(bounds, "n_pv_kw")),
              OutsideBy(xs["n_wind_mw"], BoundFor(bounds, "n_wind_mw"))),
         QAdd(OutsideBy(xs["e_battery_mwh"], BoundFor(bounds, "e_battery_mwh")),
              OutsideBy(xs["p_diesel_mw"], BoundFor(bounds, "p_diesel_mw"))))

\* C17: the bounds value returned is the sum, over PV, wind, battery and
\* diesel, of the amount by which the value lies below the lower or above the
\* upper bound of the bounds map in use, the map of the shipped configuration
\* included, and is > 0 whenever one of the four lies outside its bounds.
C17_BoundsIsOutsideSum ==
    (mode = "validate" /\ validation.stage # "called") =>
        LET value == validation.result.violations["bounds"]
        IN  /\ value = OutsideSum(validation.x, validation.bounds)
            /\ (\E k \in DecisionNames :
                    QLt(Zero, OutsideBy(validation.x[k],
                                        BoundFor(validation.bounds, k))))
                   => QLt(Zero, value)

-----------------------------------------------------------------------------
(* C18: the renewable cap constraint *)

\* max(installed_renewable_mw - renewable_fraction_max x avg_load, 0)
RenewableOverCap(xs, policy) ==
    QMax(QSub(QAdd(QDiv(xs["p_pv_installed_kw"], Q(1000, 1)),
                   xs["p_wind_installed_mw"]),
              QMul(policy.renewable_fraction_max, xs["p_load_avg_mw"])),
         Zero)

\* C18: the renewable_cap value returned by validate_solution, called with a
\* policy that does not disable the cap, is max(pv_kw / 1000 + wind_mw -
\* renewable_fraction_max x avg_load, 0), hence 0 only when the installed
\* renewable capacity is within the cap.
C18_RenewableCapValue ==
    (mode = "validate" /\ validation.stage # "called") =>
        LET policy == [renewable_fraction_max |-> ValidateConfig.renewable_fraction_max]
            value == validation.result.violations["renewable_cap"]
        IN  /\ value = RenewableOverCap(validation.x, policy)
            /\ value = Zero =>
                   QLe(QAdd(QDiv(validation.x["p_pv_installed_kw"], Q(1000, 1)),
                            validation.x["p_wind_installed_mw"]),
                       QMul(policy.renewable_fraction_max,
                            validation.x["p_load_avg_mw"]))

-----------------------------------------------------------------------------
(* C19: the arrays the cache serves *)

\* The evaluations that called DataCache.initialize
InitializeCalls == {i \in DOMAIN evals : evals[i].simulator = "simulate_system_fast"}

\* The configuration passed to the most recent initialize call
LastInitialized ==
    evals[CHOOSE i \in InitializeCalls : \A j \in InitializeCalls : j <= i].system_config

\* C19: after any sequence of DataCache.initialize(config) calls, get_arrays()
\* returns the load, solar, wind and temperature arrays of the files named by
\* the configuration of the most recent call.
C19_ArraysOfLastInitialize ==
    (mode = "eval" /\ InitializeCalls # {}) =>
        get_arrays(data_cache) = ProfileOf(LastInitialized)

-----------------------------------------------------------------------------
(* C20: charging in a surplus hour *)

\* The state of charge at the start of hour h, given the recorded ones
SocAtStart(h, recorded) == IF h = 1 THEN Q(1, 2) ELSE recorded[h - 1]

\* The charge and the rise of the state of charge the claim allows in a
\* surplus hour that starts at soc0 and ends at soc1
ChargeWithinLimits(h, charge, soc0, soc1) ==
    LET surplus == QSub(FastRe(h), prof.load_mw[h])
        power_limit == QMul(cfg.battery_c_rate, x.e_battery_mwh)
        headroom == QDiv(QMul(QSub(One, soc0), x.e_battery_mwh),
                         cfg.battery_efficiency)
    IN  /\ QLe(charge, QMin(surplus, QMin(power_limit, headroom)))
        /\ QLt(Zero, x.e_battery_mwh) =>
               QSub(soc1, soc0) =
                   QDiv(QMul(charge, cfg.battery_efficiency), x.e_battery_mwh)

\* C20: in every surplus hour (pv + wind >= load) the recorded battery_charge
\* is at most min(surplus, c_rate x capacity, (1 - soc) x capacity /
\* efficiency), soc being the state of charge at the start of the hour, and
\* the state of charge rises by exactly battery_charge x efficiency /
\* capacity, in simulate_system_fast and in simulate_system.
C20_ChargeWithinLimits ==
    mode = "sim" =>
        \A h \in Done :
            QLe(prof.load_mw[h], FastRe(h)) =>
                /\ ChargeWithinLimits(h, fast.battery_charge_mw[h],
                                      SocAtStart(h, fast.soc), fast.soc[h])
                /\ ChargeWithinLimits(
                       h, slow.hourly_results[h].battery_charge_mw,
                       SocAtStart(h, [i \in Done |-> slow.hourly_results[i].soc]),
                       slow.hourly_results[h].soc)

-----------------------------------------------------------------------------
(* C21: discharging in a shortfall hour *)

\* The discharge and the fall of the state of charge the claim allows in a
\* shortfall hour that starts at soc0 and ends at soc1
DischargeWithinLimits(h, discharge, soc0, soc1) ==
    LET shortfall == QSub(prof.load_mw[h], FastRe(h))
        power_limit == QMul(cfg.battery_c_rate, x.e_battery_mwh)
        soc_min == QSub(One, cfg.battery_dod_max)
        deliverable == QMul(QMul(QSub(soc0, soc_min), x.e_battery_mwh),
                            cfg.battery_efficiency)
        withdrawn == QMul(QSub(soc0, soc1), x.e_battery_mwh)
    IN  /\ QLe(discharge, QMin(shortfall, QMin(power_limit, deliverable)))
        /\ discharge = QMul(withdrawn, cfg.battery_efficiency)

\* C21: in every shortfall hour (pv + wind < load) the recorded
\* battery_discharge is at most min(shortfall, c_rate x capacity, (soc -
\* soc_min) x capacity x efficiency), soc being the state of charge at the
\* start of the hour and soc_min = 1 - dod_max, and the energy delivered is
\* the energy withdrawn from storage times the efficiency, in
\* simulate_system_fast and in simulate_system.
C21_DischargeWithinLimits ==
    mode = "sim" =>
        \A h \in Done :
            QLt(FastRe(h), prof.load_mw[h]) =>
                /\ DischargeWithinLimits(h, fast.battery_discharge_mw[h],
                                         SocAtStart(h, fast.soc), fast.soc[h])
                /\ DischargeWithinLimits(
                       h, slow.hourly_results[h].battery_discharge_mw,
                       SocAtStart(h, [i \in Done |-> slow.hourly_results[i].soc]),
                       slow.hourly_results[h].soc)

-----------------------------------------------------------------------------
(* C22: the cached arrays are read-only *)

\* The arrays DataCache.initialize reads from the files of a configuration
LoadedFrom(system_config) ==
    [load_mw |-> Files[system_config.load_profile_path].Load_MW,
     solar_cf |-> Files[system_config.solar_cf_path].CF_pv,
     wind_cf |-> Files[system_config.wind_cf_path].CF_wind,
     temperature_c |-> Files[system_config.solar_cf_path].T_ambient_C]

-----------------------------------------------------------------------------
(* C23: the convergence history *)

\* The sample a notify call has appended is that of a logged generation with
\* a front, later than every sample before it
SampleOfCall(sample, before) ==
    /\ sample.generation = algorithm'.n_gen
    /\ sample.generation = 1 \/ sample.generation % callback.log_every = 0
    /\ Len(algorithm'.opt.F) > 0
    /\ sample.n_solutions = Len(algorithm'.opt.F)
    /\ \A i \in DOMAIN before : before[i].generation < sample.generation

\* C23: every step leaves metrics_history as it is or appends one sample to
\* it, the earlier samples unchanged; a sample is appended only by a notify
\* call of a logged generation (generation 1 or a multiple of log_every)
\* with a non-empty non-dominated set, and its generation is larger than
\* that of every earlier sample.
C23_HistoryAppendOnly ==
    [][mode = "callback" =>
          LET before == callback.metrics_history
              after == callback'.metrics_history
          IN  \/ after = before
              \/ /\ Len(after) = Len(before) + 1
                 /\ SubSeq(after, 1, Len(before)) = before
                 /\ SampleOfCall(after[Len(after)], before)]_vars

\* A history of two samples, made by a run that also had a generation that
\* was not logged and a generation without a front.
C23_Witness ==
    /\ mode = "callback"
    /\ Len(callback.metrics_history) = 2
    /\ Len(callback.hv_history) > Len(callback.metrics_history)
    /\ Len(callback.hv_history) < algorithm.n_gen

-----------------------------------------------------------------------------
(* C24: merit order *)

\* The battery has given what it can in an hour: its power limit, or its
\* stored energy down to the floor 1 - dod_max
BatteryAtLimit(discharge, soc_end) ==
    \/ discharge = QMul(cfg.battery_c_rate, x.e_battery_mwh)
    \/ QLe(soc_end, QSub(One, cfg.battery_dod_max))

MeritOrder(diesel, discharge, deficit, soc_end) ==
    /\ QLt(Zero, diesel) =>
           x.e_battery_mwh = Zero \/ BatteryAtLimit(discharge, soc_end)
    /\ QLt(Zero, deficit) => diesel = x.p_diesel_mw

\* C24: in every hour of both simulators, diesel output is > 0 only if there
\* is no battery or the battery discharge of the hour has reached its limit
\* (the power limit, or the stored energy above the floor), and the deficit
\* is > 0 only if the diesel output equals the diesel capacity.
C24_MeritOrder ==
    mode = "sim" =>
        \A h \in Done :
            /\ MeritOrder(fast.diesel_gen_mw[h], fast.battery_discharge_mw[h],
                          fast.deficit_mw[h], fast.soc[h])
            /\ MeritOrder(slow.hourly_results[h].diesel_mw,
                          slow.hourly_results[h].battery_discharge_mw,
                          slow.hourly_results[h].deficit_mw,
                          slow.hourly_results[h].soc)

\* An hour in which the battery gave its power limit, the diesel generator
\* its capacity, and load was still left unserved, in both simulators; and
\* another in which the battery went down to its floor before diesel ran.
C24_Witness ==
    /\ mode = "sim"
    /\ t = NHours
    /\ QLt(Zero, x.e_battery_mwh) /\ QLt(Zero, x.p_diesel_mw)
    /\ \E h \in Hours :
        /\ fast.battery_discharge_mw[h] = QMul(cfg.battery_c_rate, x.e_battery_mwh)
        /\ fast.diesel_gen_mw[h] = x.p_diesel_mw
        /\ QLt(Zero, fast.deficit_mw[h])
        /\ slow.hourly_results[h].battery_discharge_mw
               = QMul(cfg.battery_c_rate, x.e_battery_mwh)
        /\ QLt(Zero, slow.hourly_results[h].deficit_mw)
    /\ \E h \in Hours :
        /\ QLt(Zero, fast.battery_discharge_mw[h])
        /\ fast.battery_discharge_mw[h] # QMul(cfg.battery_c_rate, x.e_battery_mwh)
        /\ QLt(Zero, fast.diesel_gen_mw[h])
        /\ QLt(Zero, slow.hourly_results[h].battery_discharge_mw)
        /\ QLt(Zero, slow.hourly_results[h].diesel_mw)

-----------------------------------------------------------------------------
(* C25: an evaluation and the global random generator *)

\* C25: no step of an evaluation changes the state of the process-global
\* random number generator: it is the same after the evaluation as before.
C25_GlobalRngUntouched ==
    [][mode = "sim" => np_random' = np_random]_vars

-----------------------------------------------------------------------------
(* C26: charging excludes discharging, diesel and deficit *)

ChargeExcludesTheRest(charge, discharge, diesel, deficit) ==
    /\ ~(QLt(Zero, charge) /\ QLt(Zero, discharge))
    /\ QLt(Zero, charge) => diesel = Zero /\ deficit = Zero

\* C26: in no hour of a dispatch trace, of either simulator, are
\* battery_charge and battery_discharge both > 0, and in every hour with
\* battery_charge > 0 the diesel output and the deficit are 0.
C26_ChargeExcludesTheRest ==
    mode = "sim" =>
        \A h \in Done :
            /\ ChargeExcludesTheRest(fast.battery_charge_mw[h],
                                     fast.battery_discharge_mw[h],
                                     fast.diesel_gen_mw[h], fast.deficit_mw[h])
            /\ ChargeExcludesTheRest(slow.hourly_results[h].battery_charge_mw,
                                     slow.hourly_results[h].battery_discharge_mw,
                                     slow.hourly_results[h].diesel_mw,
                                     slow.hourly_results[h].deficit_mw)

\* A finished run with a diesel generator in which the battery is charged in
\* one hour and discharged, with diesel running, in another, in both
\* simulators.
C26_Witness ==
    /\ mode = "sim"
    /\ t = NHours
    /\ QLt(Zero, x.p_diesel_mw)
    /\ \E h \in Hours :
        /\ QLt(Zero, fast.battery_charge_mw[h])
        /\ QLt(Zero, slow.hourly_results[h].battery_charge_mw)
    /\ \E h \in Hours :
        /\ QLt(Zero, fast.battery_discharge_mw[h])
        /\ QLt(Zero, fast.diesel_gen_mw[h])
        /\ QLt(Zero, slow.hourly_results[h].battery_discharge_mw)
        /\ QLt(Zero, slow.hourly_results[h].diesel_mw)

-----------------------------------------------------------------------------
(* C27: the early-stop signal as a terminal state *)

\* C27: once notify has emitted the early-stop signal, every later call with
\* a non-empty non-dominated set emits it again, whatever the hypervolume:
\* after a first stop, the last call with a front has signalled STOPPED.
C27_StoppedIsTerminal ==
    (mode = "poll" /\ run.early_stopped /\ Len(algorithm.opt.F) > 0)
        => run.state = "STOPPED"

-----------------------------------------------------------------------------
(* C28: HypervolumeStagnation *)

\* The hypervolume the criterion observed last exceeds each one it observed
\* before by more than tol, relatively; true of the first one
ImprovesOnAllBefore(term) ==
    LET n == Len(term.hv_history)
    IN  \A i \in 1 .. n - 1 :
            ExceedsTol(RelativeImprovement(term.hv_history[n],
                                           term.hv_history[i]), term.tol)

\* C28: whenever the hypervolume HypervolumeStagnation observes improves on
\* the best seen so far by more than tol, starting with the first one, the
\* criterion has generations_without_improvement = 0 and the new best
\* recorded; and the run continues exactly while fewer than n_stagnant
\* consecutive updates have passed without such an improvement.
C28_ResetOnImprovement ==
    (mode = "stagnation" /\ Len(termination.hv_history) > 0) =>
        /\ ImprovesOnAllBefore(termination) =>
               /\ termination.generations_without_improvement = 0
               /\ termination.best_hv
                      = termination.hv_history[Len(termination.hv_history)]
        /\ run.state = "RUNNING" <=>
               termination.generations_without_improvement
                   < termination.n_stagnant

-----------------------------------------------------------------------------
(* C29: the feasibility flag of calculate_solution_metrics *)

\* C29: for the same six constraint values, the is_feasible flag of
\* calculate_solution_metrics equals the is_feasible flag of
\* validate_solution, and the two total violations are equal.
C29_SameFeasibility ==
    (mode = "validate" /\ validation.stage # "called") =>
        /\ validation.metrics.is_feasible = validation.result.is_feasible
        /\ validation.metrics.total_violation = validation.result.total_violation

-----------------------------------------------------------------------------
(* C30: simulate_system with a single area budget *)

\* C30: with a configuration that gives only area_available_m2,
\* simulate_system returns without raising, with an area violation of
\* max(pv area + wind area + battery area - area_available_m2, 0).
C30_SingleBudgetArea ==
    (mode = "area" /\ validation.stage = "returned"
        /\ DOMAIN validation.system_config = {"area_available_m2"}) =>
        /\ validation.result.raised = NoError
        /\ validation.result.area
               = QMax(QSub(QAdd(QAdd(QMul(validation.x.n_pv_kw, Q(2, 1)),
                                     QMul(validation.x.n_wind_mw, Q(186050, 1))),
                                QMul(validation.x.e_battery_mwh, Q(10, 1))),
                           validation.system_config.area_available_m2),
                      Zero)

====
